---------------------------- MODULE Spec2Model ----------------------------
(***************************************************************************)
(* State-machine model of the rotastellar-distributed crate:               *)
(*   - sync.rs       PriorityQueue / SyncScheduler                         *)
(*   - federated.rs  GradientCompressor, GradientAggregator                *)
(*   - mesh.rs       SpaceMesh, create_constellation                       *)
(*   - partitioning.rs  PartitionOptimizer                                 *)
(*   - core.rs       Topology                                              *)
(*                                                                         *)
(* f64 values are modelled as exact rationals [n |-> numerator,            *)
(* d |-> denominator]; d = 0 stands for NaN (the result of 0.0 / 0.0).     *)
(* Rounding error of binary floating point is not modelled.                *)
(***************************************************************************)
EXTENDS Integers, Sequences, FiniteSets, TLC

VARIABLES
    \* ---- sync.rs: PriorityQueue --------------------------------------
    heap,        \* PriorityQueue.heap: the BinaryHeap's backing vector
    counter,     \* PriorityQueue.counter
    popResult,   \* value returned by the last pop_task: <<>> is None, <<t>> is Some(t)
    lastOp,      \* the last queue operation: "init", "add", "schedule", "pop"
    assigned,    \* history: the task ids returned by add_task, in call order
    \* ---- federated.rs: GradientAggregator ----------------------------
    strategy,          \* GradientAggregator.strategy
    min_participants,  \* GradientAggregator.min_participants
    model_size,        \* GradientAggregator.model_size: <<>> is None, <<m>> is Some(m)
    pending,           \* GradientAggregator.pending_gradients: node id -> (gradient, samples)
    round,             \* GradientAggregator.round
    aggResult,         \* outcome of aggregate() when it was the last call, else NoResult
    succeeded,         \* history: number of aggregate() calls that returned Ok
    latest,            \* history: node id -> its last submission since the last Ok
    subs,              \* history: one record per receive_gradients call
    cur,               \* history: node id -> index in subs of its pending submission
    \* ---- federated.rs: GradientCompressor ----------------------------
    config,             \* GradientCompressor.config
    error_accumulator,  \* GradientCompressor.error_accumulator: <<>> is None, <<v>> is Some(v)
    calls,              \* number of compress calls made on this compressor
    lastCall,           \* input, outcome and residual-before of the last compress call
    owed,               \* history: per position, the inputs minus the transmitted values
                        \* over the calls so far, while every call returned with error
                        \* feedback on inputs of one length: <<v>>, else <<>>
    \* ---- mesh.rs: SpaceMesh -------------------------------------------
    nodes,       \* SpaceMesh.nodes: node id -> OrbitalNode
    links,       \* SpaceMesh.links: "id1-id2" key -> ISLLink
    adjacency,   \* SpaceMesh.adjacency: node id -> set of node ids
    route,       \* the query and the Route of find_route when it was the last call
    adds,        \* number of add_node calls made on this mesh
    rebuild,     \* position of an update_topology call that is under way
    built,       \* history: the topology as the last finished call left it, the
                 \* topologies the update_topology under way may finish with, and
                 \* whether the last update_topology passed through any other
    created,     \* the arguments of the create_constellation call that returned
                 \* this mesh, while the mesh is as returned
    \* ---- partitioning.rs: PartitionOptimizer --------------------------
    partition,   \* the optimizer and the model profile, and for the last optimize
                 \* call on them the objective and the PartitionPlan returned
    \* ---- core.rs: Topology --------------------------------------------
    topology_nodes,  \* Topology.nodes: node id -> NodeConfig
    connections,     \* Topology.connections: the Vec of (node1, node2, bandwidth)
    topologyCall     \* the last Topology call: its name, arguments and result, and
                     \* the number of connections it found

queueVars == <<heap, counter, popResult, lastOp, assigned>>
aggVars == <<strategy, min_participants, model_size, pending, round, aggResult,
             succeeded, latest, subs, cur>>
compVars == <<config, error_accumulator, calls, lastCall, owed>>
meshVars == <<nodes, links, adjacency, route, adds, rebuild, built, created>>
partVars == <<partition>>
topoVars == <<topology_nodes, connections, topologyCall>>
vars == <<queueVars, aggVars, compVars, meshVars, partVars, topoVars>>

-----------------------------------------------------------------------------
(* Bounds of the model.                                                    *)

\* add_task / schedule_sync calls made on one queue
MaxTasks == 5

-----------------------------------------------------------------------------
(* Exact arithmetic standing for f64.                                      *)

RECURSIVE Gcd(_, _)
Gcd(a, b) == IF b = 0 THEN a ELSE Gcd(b, a % b)

IAbs(i) == IF i < 0 THEN -i ELSE i

NaN == [n |-> 0, d |-> 0]

IsNaN(x) == x.d = 0

\* the rational n / d in lowest terms with a positive denominator
Rat(n, d) ==
    IF d = 0 THEN NaN
    ELSE LET g == Gcd(IAbs(n), IAbs(d))
             s == IF d < 0 THEN -1 ELSE 1
         IN [n |-> (s * n) \div g, d |-> (s * d) \div g]

FromInt(i) == [n |-> i, d |-> 1]

Zero == FromInt(0)

RAdd(x, y) == IF IsNaN(x) \/ IsNaN(y) THEN NaN ELSE Rat(x.n * y.d + y.n * x.d, x.d * y.d)

RSub(x, y) == IF IsNaN(x) \/ IsNaN(y) THEN NaN ELSE Rat(x.n * y.d - y.n * x.d, x.d * y.d)

RMul(x, y) == IF IsNaN(x) \/ IsNaN(y) THEN NaN ELSE Rat(x.n * y.n, x.d * y.d)

\* the only division by zero the modelled code performs is 0.0 / 0.0 = NaN
RDiv(x, y) == IF IsNaN(x) \/ IsNaN(y) \/ y.n = 0 THEN NaN ELSE Rat(x.n * y.d, x.d * y.n)

RAbs(x) == [n |-> IAbs(x.n), d |-> x.d]

\* x < y; every comparison with NaN is false
RLt(x, y) == ~IsNaN(x) /\ ~IsNaN(y) /\ x.n * y.d < y.n * x.d

\* f64::round: to the nearest integer, halves away from zero
RRound(x) ==
    IF IsNaN(x) THEN NaN
    ELSE LET m == (2 * IAbs(x.n) + x.d) \div (2 * x.d)
         IN FromInt(IF x.n < 0 THEN -m ELSE m)

-----------------------------------------------------------------------------
(* sync.rs: Priority, SyncTask, PriorityQueue, SyncScheduler               *)

\* enum Priority, as u8
Critical == 0
High == 1
Normal == 2
Low == 3

Priorities == {Critical, High, Normal, Low}

\* decimal digits of n, most significant first: what "{}" prints for a u64
RECURSIVE Digits(_)
Digits(n) == IF n < 10 THEN <<n>> ELSE Append(Digits(n \div 10), n % 10)

\* format!("task_{}", counter)
TaskId(c) == <<"task_">> \o Digits(c)

\* the number a task id prints (inverse of the formatting, used to compare ids)
RECURSIVE DigitsValue(_)
DigitsValue(ds) ==
    IF Len(ds) = 0 THEN 0
    ELSE 10 * DigitsValue(SubSeq(ds, 1, Len(ds) - 1)) + ds[Len(ds)]

IdNumber(id) == DigitsValue(Tail(id))

\* Ord for SyncTask, with the operands exchanged (a plausible slip)
CmpSwapped(self, other) ==
    IF self.priority < other.priority THEN "Less"
    ELSE IF self.priority = other.priority THEN "Equal"
    ELSE "Greater"

\* impl Ord for SyncTask: (other.priority as u8).cmp(&(self.priority as u8))
Cmp(self, other) ==
    IF other.priority < self.priority THEN "Less"
    ELSE IF other.priority = self.priority THEN "Equal"
    ELSE "Greater"

\* a <= b as BinaryHeap evaluates it through Ord
Le(a, b) == Cmp(a, b) # "Greater"

\* BinaryHeap::sift_up(start, pos) with the hole's element e; positions are
\* 1-based here, so the parent of pos is pos \div 2
RECURSIVE SiftUp(_, _, _, _)
SiftUp(data, start, pos, e) ==
    IF pos > start
    THEN LET parent == pos \div 2
         IN IF Le(e, data[parent])
            THEN [data EXCEPT ![pos] = e]
            ELSE SiftUp([data EXCEPT ![pos] = data[parent]], start, parent, e)
    ELSE [data EXCEPT ![pos] = e]

\* BinaryHeap::sift_down_to_bottom(0): move the hole to a leaf along the
\* greater children, then sift the element back up
RECURSIVE SiftDownToBottom(_, _, _)
SiftDownToBottom(data, pos, e) ==
    LET end == Len(data)
    IN IF 2 * pos + 1 <= end
       THEN LET child == IF Le(data[2 * pos], data[2 * pos + 1])
                         THEN 2 * pos + 1 ELSE 2 * pos
            IN SiftDownToBottom([data EXCEPT ![pos] = data[child]], child, e)
       ELSE IF 2 * pos = end
            THEN SiftUp([data EXCEPT ![pos] = data[2 * pos]], 1, 2 * pos, e)
            ELSE SiftUp(data, 1, pos, e)

\* BinaryHeap::push
HeapPush(data, t) == SiftUp(Append(data, t), 1, Len(data) + 1, t)

\* BinaryHeap::pop on a non-empty heap: the heap left behind
HeapPopRest(data) ==
    LET last == data[Len(data)]
        rest == SubSeq(data, 1, Len(data) - 1)
    IN IF Len(rest) = 0 THEN rest ELSE SiftDownToBottom(rest, 1, last)

\* self.counter += 1 forgotten (a plausible slip)
NextCounterStuck(c) == c

\* self.counter += 1
NextCounter(c) == c + 1

\* PriorityQueue::add_task(node_id, data_size_bytes, priority, description);
\* node_id, data_size_bytes and description are stored and never read back
AddTaskTo(op, priority) ==
    /\ counter < MaxTasks
    /\ LET c == NextCounter(counter)
           task == [task_id |-> TaskId(c), priority |-> priority]
       IN /\ counter' = c
          /\ heap' = HeapPush(heap, task)
          /\ assigned' = Append(assigned, task.task_id)
    /\ lastOp' = op
    /\ UNCHANGED popResult

AddTask ==
    /\ \E priority \in Priorities : AddTaskTo("add", priority)
    /\ UNCHANGED <<aggVars, compVars, meshVars, partVars, topoVars>>

\* SyncScheduler::schedule_sync: delegates to self.queue.add_task
ScheduleSync ==
    /\ \E priority \in Priorities : AddTaskTo("schedule", priority)
    /\ UNCHANGED <<aggVars, compVars, meshVars, partVars, topoVars>>

\* PriorityQueue::pop_task
PopTask ==
    /\ IF Len(heap) = 0
       THEN /\ popResult' = <<>>
            /\ heap' = heap
       ELSE /\ popResult' = <<heap[1]>>
            /\ heap' = HeapPopRest(heap)
    /\ lastOp' = "pop"
    /\ UNCHANGED <<counter, assigned>>
    /\ UNCHANGED <<aggVars, compVars, meshVars, partVars, topoVars>>


-----------------------------------------------------------------------------
(* federated.rs: GradientAggregator                                        *)

\* node ids submitting to one aggregator
NodeIds == {"node-1", "node-2"}

\* original_size of the submitted gradients
GradSizes == {1, 2}

\* gradient values
GradValues == {FromInt(2), FromInt(4)}

\* sample counts (u64) reported with a submission
SampleCounts == {0, 1, 3}

\* successful aggregation rounds of one run
MaxRounds == 2

\* index vectors of a CompressedGradient of original size n: distinct
\* positions below n (0-based, as in the code), here in ascending order
IndexSeqs(n) ==
    {s \in UNION {[1..k -> 0..(n - 1)] : k \in 1..n} :
        \A i, j \in DOMAIN s : i < j => s[i] < s[j]}

\* the CompressedGradient values submitted; shape, compressed_size,
\* compression_ratio and quantization_bits are never read by the aggregator
GradientPool ==
    UNION {UNION {{[indices |-> idx, values |-> v, original_size |-> n] :
                      v \in [1..Len(idx) -> GradValues]} :
                  idx \in IndexSeqs(n)} :
           n \in GradSizes}

\* AggregationStrategy
Strategies == {"FedAvg", "AsyncFedAvg", "WeightedAvg"}

\* min_participants handed to GradientAggregator::new
MinParticipantsChoices == {1, 2}

\* model_size: None as set by new, or Some(m) assigned to the pub field
ModelSizeChoices == {<<>>, <<1>>, <<2>>}

\* HashMap::new()
EmptyMap == [n \in {} |-> 0]

NoResult == [kind |-> "none", vec |-> <<>>, err |-> "", input |-> EmptyMap]

\* HashMap::insert that keeps an entry already present (a plausible slip)
InsertIfAbsent(p, node, entry) ==
    [n \in DOMAIN p \cup {node} |-> IF n \in DOMAIN p THEN p[n] ELSE entry]

\* HashMap::insert(node_id, (gradients, samples))
Insert(p, node, entry) == (node :> entry) @@ p

\* GradientAggregator::num_participants
NumParticipants(p) == Cardinality(DOMAIN p)

\* GradientAggregator::ready_to_aggregate
ReadyToAggregate == NumParticipants(pending) >= min_participants

\* the emptiness test of aggregate() left out (a plausible slip)
NeverEmpty(p) == FALSE

\* self.pending_gradients.is_empty()
IsEmpty(p) == DOMAIN p = {}

\* self.pending_gradients.clear() left out (a plausible slip)
KeepPending(p) == p

\* self.pending_gradients.clear()
ClearPending(p) == EmptyMap

\* self.round += 2 (a plausible slip)
NextRoundTwice(r) == r + 2

\* self.round += 1
NextRound(r) == r + 1

\* sum of the sample counts of the entries of p under the nodes of S
RECURSIVE SumSamples(_, _)
SumSamples(p, S) ==
    IF S = {} THEN 0
    ELSE LET n == CHOOSE x \in S : TRUE
         IN p[n].samples + SumSamples(p, S \ {n})

\* vec![0.0; model_size]
Zeros(m) == [i \in 1..m |-> Zero]

\* for (i, &idx) in grad.indices.iter().enumerate() { aggregated[idx] += f };
\* position idx of the code is element idx + 1 here
RECURSIVE ScatterAdd(_, _, _, _)
ScatterAdd(agg, grad, weight, i) ==
    IF i > Len(grad.indices) THEN agg
    ELSE LET at == grad.indices[i] + 1
         IN ScatterAdd([agg EXCEPT ![at] = RAdd(agg[at], RMul(grad.values[i], weight))],
                       grad, weight, i + 1)

\* the loop of fed_avg over pending_gradients.values()
RECURSIVE FedAvgLoop(_, _, _, _)
FedAvgLoop(agg, p, S, total) ==
    IF S = {} THEN agg
    ELSE LET n == CHOOSE x \in S : TRUE
             weight == RDiv(FromInt(p[n].samples), FromInt(total))
         IN FedAvgLoop(ScatterAdd(agg, p[n].gradient, weight, 1), p, S \ {n}, total)

\* GradientAggregator::fed_avg
FedAvg(p, m) == FedAvgLoop(Zeros(m), p, DOMAIN p, SumSamples(p, DOMAIN p))

\* the loop of async_fed_avg: aggregated[idx] += grad.values[i] / n
RECURSIVE AsyncFedAvgLoop(_, _, _, _)
AsyncFedAvgLoop(agg, p, S, cnt) ==
    IF S = {} THEN agg
    ELSE LET n == CHOOSE x \in S : TRUE
             weight == RDiv(FromInt(1), FromInt(cnt))
         IN AsyncFedAvgLoop(ScatterAdd(agg, p[n].gradient, weight, 1), p, S \ {n}, cnt)

\* GradientAggregator::async_fed_avg
AsyncFedAvg(p, m) == AsyncFedAvgLoop(Zeros(m), p, DOMAIN p, Cardinality(DOMAIN p))

\* aggregated[idx] with idx >= aggregated.len(): the slice index panics
IndexOutOfBounds(p, m) ==
    \E n \in DOMAIN p : \E i \in DOMAIN p[n].gradient.indices :
        p[n].gradient.indices[i] >= m

\* the sizes self.model_size.unwrap_or_else(..) can yield: the configured
\* size, else the original_size of the first entry the HashMap iterates,
\* which may be any entry, else 0
InferredSizes(p) ==
    IF model_size # <<>> THEN {model_size[1]}
    ELSE IF DOMAIN p = {} THEN {0}
    ELSE {p[n].gradient.original_size : n \in DOMAIN p}

\* the match on self.strategy in aggregate()
Combine(p, m) ==
    IF strategy \in {"FedAvg", "WeightedAvg"} THEN FedAvg(p, m) ELSE AsyncFedAvg(p, m)

\* GradientAggregator::receive_gradients, the aggregator's own fields
ReceiveGradientsStep(node, gradient, samples) ==
    /\ pending' = Insert(pending, node, [gradient |-> gradient, samples |-> samples])
    /\ aggResult' = NoResult
    /\ latest' = [n \in DOMAIN latest \cup {node} |->
                     IF n = node THEN [gradient |-> gradient, samples |-> samples]
                     ELSE latest[n]]
    /\ UNCHANGED <<strategy, min_participants, model_size, round, succeeded>>

\* GradientAggregator::aggregate, the aggregator's own fields
AggregateStep ==
    /\ round < MaxRounds
    /\ UNCHANGED <<strategy, min_participants, model_size>>
    /\ IF IsEmpty(pending)
       THEN /\ aggResult' = [kind |-> "err", vec |-> <<>>,
                             err |-> "No gradients to aggregate", input |-> pending]
            /\ UNCHANGED <<pending, round, succeeded, latest>>
       ELSE \E m \in InferredSizes(pending) :
              IF IndexOutOfBounds(pending, m)
              THEN /\ aggResult' = [kind |-> "panic", vec |-> <<>>,
                                    err |-> "index out of bounds", input |-> pending]
                   /\ UNCHANGED <<pending, round, succeeded, latest>>
              ELSE /\ aggResult' = [kind |-> "ok", vec |-> Combine(pending, m),
                                    err |-> "", input |-> pending]
                   /\ pending' = ClearPending(pending)
                   /\ round' = NextRound(round)
                   /\ succeeded' = succeeded + 1
                   /\ latest' = EmptyMap

ReceiveGradients ==
    /\ \E node \in NodeIds, gradient \in GradientPool, samples \in SampleCounts :
          ReceiveGradientsStep(node, gradient, samples)
    /\ UNCHANGED <<subs, cur>>
    /\ UNCHANGED <<queueVars, compVars, meshVars, partVars, topoVars>>

Aggregate ==
    /\ AggregateStep
    /\ UNCHANGED <<subs, cur>>
    /\ UNCHANGED <<queueVars, compVars, meshVars, partVars, topoVars>>

\* receive_gradients calls followed one by one in the tracked specification
MaxSubmissions == 3

\* the sample counts of the tracked specification
TrackedSamples == {1, 3}

\* the submissions of the tracked specification: dense gradients of each size
TrackedPool ==
    {g \in GradientPool :
        /\ Len(g.indices) = g.original_size
        /\ \A i \in DOMAIN g.values : g.values[i] = FromInt(2)}

\* the entries the loops of fed_avg and async_fed_avg visit:
\* for (grad, samples) in self.pending_gradients.values()
CombinedNodes(p) == DOMAIN p

\* receive_gradients with the fate of every submission followed: a
\* submission is "pending" while the map holds it, "overwritten" once a later
\* one of its node replaced it, "consumed" once it left the map after being
\* combined, and "lost" if it left the map without either
ReceiveGradientsTracked ==
    /\ Len(subs) < MaxSubmissions
    /\ \E node \in NodeIds, gradient \in TrackedPool, samples \in TrackedSamples :
          /\ ReceiveGradientsStep(node, gradient, samples)
          /\ LET stored == /\ node \in DOMAIN pending'
                           /\ pending'[node] = [gradient |-> gradient, samples |-> samples]
                 old == [i \in DOMAIN subs |->
                           IF stored /\ node \in DOMAIN cur /\ cur[node] = i
                           THEN [subs[i] EXCEPT !.state = "overwritten"]
                           ELSE subs[i]]
             IN /\ subs' = Append(old, [node |-> node, combined |-> 0,
                                        state |-> IF stored THEN "pending" ELSE "lost"])
                /\ cur' = IF stored
                          THEN [n \in DOMAIN cur \cup {node} |->
                                  IF n = node THEN Len(subs) + 1 ELSE cur[n]]
                          ELSE cur
    /\ UNCHANGED <<queueVars, compVars, meshVars, partVars, topoVars>>

\* aggregate with the fate of every submission followed
AggregateTracked ==
    /\ AggregateStep
    /\ LET combined == IF aggResult'.kind = "ok" THEN CombinedNodes(pending) ELSE {}
       IN subs' = [i \in DOMAIN subs |->
                     IF subs[i].state # "pending" THEN subs[i]
                     ELSE LET c == subs[i].combined
                                   + (IF subs[i].node \in combined THEN 1 ELSE 0)
                          IN [node |-> subs[i].node, combined |-> c,
                              state |-> IF subs[i].node \in DOMAIN pending' THEN "pending"
                                        ELSE IF c >= 1 THEN "consumed" ELSE "lost"]]
    /\ cur' = [n \in DOMAIN cur \cap DOMAIN pending' |-> cur[n]]
    /\ UNCHANGED <<queueVars, compVars, meshVars, partVars, topoVars>>

-----------------------------------------------------------------------------
(* federated.rs: CompressionConfig, GradientCompressor                     *)

\* length of the gradient vectors handed to compress
MaxLen == 2

\* compress calls made on one compressor
MaxCalls == 2

\* entries of the gradient vectors
CompValues == {FromInt(-1), FromInt(0), FromInt(1)}

\* some longer gradient vectors: a value between two quantization levels,
\* a tie of magnitudes, and a length the Random-K sequence does not cover
LongVectors ==
    {<<FromInt(-1), FromInt(0), FromInt(1)>>,
     <<FromInt(1), FromInt(-1), FromInt(1)>>,
     <<FromInt(0), FromInt(1), FromInt(0)>>}

\* the gradient vectors handed to compress
GradientVectors == UNION {[1..n -> CompValues] : n \in 0..MaxLen} \cup LongVectors

\* CompressionMethod
Methods == {"None", "TopK", "TopKQuantized", "RandomK", "Quantization"}

\* k_ratio, within the documented range (0, 1]
KRatios == {Rat(1, 2), FromInt(1)}

\* quantization_bits, a documented width
BitsChoices == {2}

\* a width outside the documented set {2, 4, 8, 16, 32}
UndocumentedBits == {3}

\* the CompressionConfig values a compressor is built with: every method,
\* ratio and feedback setting with the documented width, and
\* CompressionConfig::new(TopKQuantized, k_ratio, 3), the one method that
\* reads the width
Configs ==
    [method : Methods, k_ratio : KRatios, quantization_bits : BitsChoices,
     error_feedback : BOOLEAN]
    \cup [method : {"TopKQuantized"}, k_ratio : KRatios,
          quantization_bits : UndocumentedBits, error_feedback : {TRUE}]

\* the multiplier and the increment of the Random-K index sequence
LcgMultiplier == 1103515245
LcgIncrement == 12345

RECURSIVE Pow2(_)
Pow2(b) == IF b = 0 THEN 1 ELSE 2 * Pow2(b - 1)

\* f64::ceil of a non-negative value, as usize
RCeil(x) == (x.n + x.d - 1) \div x.d

IMin(a, b) == IF a < b THEN a ELSE b

IMax(a, b) == IF a < b THEN b ELSE a

\* the residual is not added to the input (a plausible slip)
ApplyNoFeedback(g, cfg, acc) == g

\* working = gradients, plus the stored residual over the common prefix
\* (zip) when error feedback is enabled and a residual is stored
ApplyFeedback(g, cfg, acc) ==
    IF cfg.error_feedback /\ acc # <<>>
    THEN [i \in DOMAIN g |-> IF i <= Len(acc[1]) THEN RAdd(g[i], acc[1][i]) ELSE g[i]]
    ELSE g

\* k taken with floor instead of ceil (a plausible slip)
KeepCountFloor(n, cfg) == IMin(IMax((n * cfg.k_ratio.n) \div cfg.k_ratio.d, 1), n)

\* k = ceil(original_size * k_ratio).max(1).min(original_size)
KeepCount(n, cfg) == IMin(IMax(RCeil(RMul(FromInt(n), cfg.k_ratio)), 1), n)

\* an insertion that puts x in front of the elements of equal magnitude,
\* which makes the sort unstable (a plausible slip)
RECURSIVE InsertDescendingUnstable(_, _, _)
InsertDescendingUnstable(sorted, x, at) ==
    IF at > Len(sorted) \/ ~RLt(x.abs, sorted[at].abs)
    THEN SubSeq(sorted, 1, at - 1) \o <<x>> \o SubSeq(sorted, at, Len(sorted))
    ELSE InsertDescendingUnstable(sorted, x, at + 1)

\* one step of the stable sort by descending magnitude: x goes behind every
\* element whose magnitude is not smaller
RECURSIVE InsertDescending(_, _, _)
InsertDescending(sorted, x, at) ==
    IF at > Len(sorted) \/ RLt(sorted[at].abs, x.abs)
    THEN SubSeq(sorted, 1, at - 1) \o <<x>> \o SubSeq(sorted, at, Len(sorted))
    ELSE InsertDescending(sorted, x, at + 1)

\* indexed.sort_by(|a, b| b.1.partial_cmp(&a.1).unwrap()) over the elements
\* (i, v.abs(), v) of working, taken in index order
RECURSIVE SortDescending(_, _)
SortDescending(working, upto) ==
    IF upto = 0 THEN <<>>
    ELSE InsertDescending(SortDescending(working, upto - 1),
                          [idx |-> upto - 1, abs |-> RAbs(working[upto]),
                           val |-> working[upto]], 1)

\* the Top-K branch: the first k elements of the sorted vector
TopKSelect(working, k) ==
    LET selected == SubSeq(SortDescending(working, Len(working)), 1, k)
    IN [indices |-> [i \in 1..k |-> selected[i].idx],
        values |-> [i \in 1..k |-> selected[i].val]]

\* (rng_idx * 1103515245 + 12345) % original_size, computed residue by
\* residue: equal to the code's value as long as the product fits usize
LcgIndex(rng_idx, n) ==
    (((rng_idx % n) * (LcgMultiplier % n)) + (LcgIncrement % n)) % n

\* the while loop of the Random-K branch, run until k indices are selected
\* or the index sequence has completed a period (it repeats every n draws)
RECURSIVE RandomKLoop(_, _, _, _)
RandomKLoop(selected, rng_idx, n, k) ==
    IF Cardinality(selected) >= k \/ rng_idx >= n THEN selected
    ELSE RandomKLoop(selected \cup {LcgIndex(rng_idx, n)}, rng_idx + 1, n, k)

\* the orders in which a HashSet of indices may be iterated
Orders(S) ==
    {s \in [1..Cardinality(S) -> S] : \A i, j \in DOMAIN s : i # j => s[i] # s[j]}

\* the index sets the Random-K branch can end with.  When the sequence
\* reaches k positions within a period that is the set drawn.  Otherwise the
\* loop runs on until rng_idx * 1103515245 overflows usize: a build with
\* overflow checks panics there ({} here), a build without wraps around and
\* goes on to draw further positions until some k are selected
RandomKSets(n, k) ==
    LET reached == RandomKLoop({}, 0, n, k)
    IN IF Cardinality(reached) >= k THEN {reached}
       ELSE {S \in SUBSET (0..(n - 1)) : reached \subseteq S /\ Cardinality(S) = k}

RandomKPanics(n, k) == Cardinality(RandomKLoop({}, 0, n, k)) < k

RECURSIVE RMinOf(_, _)
RMinOf(vs, upto) ==
    IF upto = 1 THEN vs[1]
    ELSE LET m == RMinOf(vs, upto - 1) IN IF RLt(vs[upto], m) THEN vs[upto] ELSE m

RECURSIVE RMaxOf(_, _)
RMaxOf(vs, upto) ==
    IF upto = 1 THEN vs[1]
    ELSE LET m == RMaxOf(vs, upto - 1) IN IF RLt(m, vs[upto]) THEN vs[upto] ELSE m

\* GradientCompressor::quantize
Quantize(values, bits) ==
    IF Len(values) = 0 THEN values
    ELSE LET min_val == RMinOf(values, Len(values))
             max_val == RMaxOf(values, Len(values))
             range_val == RSub(max_val, min_val)
         IN IF range_val = Zero THEN values
            ELSE LET levels == FromInt(Pow2(bits))
                     scale == RDiv(range_val, RSub(levels, FromInt(1)))
                 IN [i \in DOMAIN values |->
                       RAdd(min_val,
                            RMul(RRound(RDiv(RSub(values[i], min_val), scale)), scale))]

\* reconstructed[idx] = values[i] over a zero vector of length n
RECURSIVE Scatter(_, _, _, _)
Scatter(dense, indices, values, i) ==
    IF i > Len(indices) THEN dense
    ELSE Scatter([dense EXCEPT ![indices[i] + 1] = values[i]], indices, values, i + 1)

\* GradientCompressor::decompress
Decompress(compressed) ==
    Scatter(Zeros(compressed.original_size), compressed.indices, compressed.values, 1)

\* method None with the ratio computed from the sizes, as the sparse
\* branch does, instead of the literal 1.0 (a plausible slip)
CompressNoneComputedRatio(working) ==
    LET n == Len(working)
    IN [indices |-> [i \in 1..n |-> i - 1], values |-> working, shape |-> <<n>>,
        original_size |-> n, compressed_size |-> n * 4,
        compression_ratio |-> Rat(n * 4, n * 4), quantization_bits |-> <<>>]

\* the CompressedGradient returned for method None
CompressNone(working) ==
    LET n == Len(working)
    IN [indices |-> [i \in 1..n |-> i - 1], values |-> working, shape |-> <<n>>,
        original_size |-> n, compressed_size |-> n * 4,
        compression_ratio |-> FromInt(1), quantization_bits |-> <<>>]

\* the CompressedGradient built from the selected indices and values
CompressSparse(working, cfg, sel) ==
    LET n == Len(working)
        values == IF cfg.method = "TopKQuantized" /\ Len(sel.values) # 0
                  THEN Quantize(sel.values, cfg.quantization_bits)
                  ELSE sel.values
        bits_per_value == IF cfg.method = "TopKQuantized"
                          THEN cfg.quantization_bits ELSE 32
        compressed_size == (Len(sel.indices) * (32 + bits_per_value)) \div 8
    IN [indices |-> sel.indices, values |-> values, shape |-> <<n>>,
        original_size |-> n, compressed_size |-> compressed_size,
        compression_ratio |-> Rat(compressed_size, n * 4),
        quantization_bits |-> IF cfg.method = "TopKQuantized"
                              THEN <<cfg.quantization_bits>> ELSE <<>>]

\* the selections the match on self.config.method can produce
Selections(working, cfg) ==
    LET n == Len(working)
        k == KeepCount(n, cfg)
    IN IF cfg.method \in {"TopK", "TopKQuantized"} THEN {TopKSelect(working, k)}
       ELSE UNION {{[indices |-> order, values |-> [i \in 1..k |-> working[order[i] + 1]]] :
                       order \in Orders(S)} :
                   S \in RandomKSets(n, k)}

\* the residual taken against the values as selected, before they are
\* quantized (a plausible slip)
ResidualBeforeQuantize(working, out) ==
    [i \in DOMAIN working |->
        IF \E at \in DOMAIN out.indices : out.indices[at] = i - 1 THEN Zero ELSE working[i]]

\* the residual stored for the next call: working - reconstructed
Residual(working, out) ==
    LET reconstructed == Scatter(Zeros(Len(working)), out.indices, out.values, 1)
    IN [i \in DOMAIN working |-> RSub(working[i], reconstructed[i])]

NoGradient ==
    [indices |-> <<>>, values |-> <<>>, shape |-> <<>>, original_size |-> 0,
     compressed_size |-> 0, compression_ratio |-> Zero, quantization_bits |-> <<>>]

NoCall == [kind |-> "none", input |-> <<>>, before |-> <<>>, out |-> NoGradient]

\* the inputs minus the transmitted values, per position, once the call on
\* gradients has returned out
Owed(gradients, out) ==
    IF ~config.error_feedback THEN <<>>
    ELSE IF calls = 0
         THEN <<[i \in DOMAIN gradients |-> RSub(gradients[i], Decompress(out)[i])]>>
    ELSE IF owed # <<>> /\ Len(owed[1]) = Len(gradients)
         THEN <<[i \in DOMAIN gradients |->
                   RSub(RAdd(owed[1][i], gradients[i]), Decompress(out)[i])]>>
    ELSE <<>>

\* GradientCompressor::compress
Compress ==
    /\ calls < MaxCalls
    /\ calls' = calls + 1
    /\ UNCHANGED config
    /\ \E gradients \in GradientVectors :
         LET working == ApplyFeedback(gradients, config, error_accumulator)
             n == Len(gradients)
         IN IF config.method = "None"
            THEN /\ lastCall' = [kind |-> "ok", input |-> gradients,
                                 before |-> error_accumulator,
                                 out |-> CompressNone(working)]
                 /\ UNCHANGED <<error_accumulator, owed>>
            ELSE \/ /\ config.method \notin {"TopK", "TopKQuantized"}
                    /\ RandomKPanics(n, KeepCount(n, config))
                    /\ lastCall' = [kind |-> "panic", input |-> gradients,
                                    before |-> error_accumulator, out |-> NoGradient]
                    /\ UNCHANGED <<error_accumulator, owed>>
                 \/ \E sel \in Selections(working, config) :
                      LET out == CompressSparse(working, config, sel)
                      IN /\ lastCall' = [kind |-> "ok", input |-> gradients,
                                         before |-> error_accumulator, out |-> out]
                         /\ error_accumulator' =
                              IF config.error_feedback
                              THEN <<Residual(working, out)>>
                              ELSE error_accumulator
                         /\ owed' = Owed(gradients, out)
    /\ UNCHANGED <<queueVars, aggVars, meshVars, partVars, topoVars>>

-----------------------------------------------------------------------------
(* mesh.rs: OrbitalNode, ISLLink, Route, SpaceMesh                         *)
(*                                                                         *)
(* Lengths (radius, altitude, range, distance) are held as integers in     *)
(* units of SPEED_OF_LIGHT_KM_S / 100000 km (2.99792458 km, the distance   *)
(* light covers in 0.01 ms), so that latency_ms = (distance /              *)
(* SPEED_OF_LIGHT_KM_S) * 1000 is exactly distance / 100.  Angles are       *)
(* whole degrees in steps of 5, with sines taken from a table scaled by    *)
(* 1000; positions are therefore accurate to a few units.                  *)

\* add_node calls made on one mesh
MaxAdds == 4

\* SPEED_OF_LIGHT_KM_S, in length units per millisecond
SpeedOfLight == 100

\* EARTH_RADIUS_KM (6371.0 km), in length units
EarthRadius == 2125

\* 1000 * sin of 0, 5, .., 90 degrees
SinTable ==
    <<0, 87, 174, 259, 342, 423, 500, 574, 643, 707, 766, 819, 866, 906, 940,
      966, 985, 996, 1000>>

\* 1000 * f64::sin of an angle given in degrees (to_radians().sin())
SinDeg(a) ==
    LET b == a % 360
    IN IF b <= 90 THEN SinTable[(b \div 5) + 1]
       ELSE IF b <= 180 THEN SinTable[((180 - b) \div 5) + 1]
       ELSE IF b <= 270 THEN -SinTable[((b - 180) \div 5) + 1]
       ELSE -SinTable[((360 - b) \div 5) + 1]

\* 1000 * f64::cos of an angle given in degrees
CosDeg(a) == SinDeg(a + 90)

\* f64::sqrt, to the integer below, by Newton's iteration from a value x
\* above the root
RECURSIVE ISqrtIn(_, _)
ISqrtIn(n, x) ==
    CHOOSE r \in { IF y >= x THEN x ELSE ISqrtIn(n, y) : y \in {(x + n \div x) \div 2} } :
        TRUE

\* no length of the model reaches 8192 units
ISqrt(n) == CHOOSE r \in { IF v = 0 THEN 0 ELSE ISqrtIn(v, 8192) : v \in {n} } : TRUE

\* OrbitalNode::new(node_id): 550 km altitude, 51.6 degrees inclination (50
\* here), 5000 km ISL range, 10 Gbps
OrbitalNodeNew(node_id) ==
    [node_id |-> node_id, orbit_altitude_km |-> 183, orbit_inclination_deg |-> 50,
     raan_deg |-> 0, mean_anomaly_deg |-> 0, isl_range_km |-> 1668,
     isl_bandwidth_gbps |-> 10]

\* OrbitalNode::with_orbit
WithOrbit(node, raan_deg, mean_anomaly_deg) ==
    [node EXCEPT !.raan_deg = raan_deg, !.mean_anomaly_deg = mean_anomaly_deg]

\* node ids; the keys "s-1-2" of the pairs (s, 1-2) and (s-1, 2) coincide
MeshIds == {<<"s">>, <<"s", "-", "1">>, <<"1", "-", "2">>, <<"2">>}

\* the mean anomaly each node is placed at, on one orbit
AnomalyOf(id) ==
    IF id = <<"s">> THEN 0
    ELSE IF id = <<"s", "-", "1">> THEN 15
    ELSE IF id = <<"1", "-", "2">> THEN 40
    ELSE 60

\* ISL range and bandwidth a node may be given: 5000 km at 10 Gbps, and for
\* the two nodes 45 degrees apart also 5500 km at 20 Gbps (the pair is
\* linked only when both have the longer range)
LinkBudgets(id) ==
    IF id \in {<<"s", "-", "1">>, <<"2">>}
    THEN {[range |-> 1668, bandwidth |-> 10], [range |-> 1835, bandwidth |-> 20]}
    ELSE {[range |-> 1668, bandwidth |-> 10]}

\* the OrbitalNode values handed to add_node
NodePool ==
    UNION {{[WithOrbit(OrbitalNodeNew(id), 0, AnomalyOf(id))
               EXCEPT !.isl_range_km = b.range, !.isl_bandwidth_gbps = b.bandwidth] :
             b \in LinkBudgets(id)} :
           id \in MeshIds}

\* the inertial-frame position (x, y, z) computed in calculate_distance
Position(node) ==
    LET r == EarthRadius + node.orbit_altitude_km
        sin_theta == SinDeg(node.mean_anomaly_deg)
        cos_theta == CosDeg(node.mean_anomaly_deg)
        sin_inc == SinDeg(node.orbit_inclination_deg)
        cos_inc == CosDeg(node.orbit_inclination_deg)
        sin_raan == SinDeg(node.raan_deg)
        cos_raan == CosDeg(node.raan_deg)
        x == (r * (((cos_raan * cos_theta) \div 1000)
                   - ((((sin_raan * sin_theta) \div 1000) * cos_inc) \div 1000)))
             \div 1000
        y == (r * (((sin_raan * cos_theta) \div 1000)
                   + ((((cos_raan * sin_theta) \div 1000) * cos_inc) \div 1000)))
             \div 1000
        z == (r * ((sin_theta * sin_inc) \div 1000)) \div 1000
    IN <<x, y, z>>

\* SpaceMesh::calculate_distance
CalculateDistance(node1, node2) ==
    CHOOSE d \in { ISqrt((q[1] - p[1]) * (q[1] - p[1]) + (q[2] - p[2]) * (q[2] - p[2])
                          + (q[3] - p[3]) * (q[3] - p[3])) :
                     p \in {Position(node1)}, q \in {Position(node2)} } : TRUE

\* SpaceMesh::has_line_of_sight
HasLineOfSight(node1, node2) ==
    LET min_altitude == IMin(node1.orbit_altitude_km, node2.orbit_altitude_km)
        distance == CalculateDistance(node1, node2)
        max_los == 2 * ISqrt((EarthRadius + min_altitude) * (EarthRadius + min_altitude)
                             - EarthRadius * EarthRadius)
    IN distance <= max_los

\* format!("{}-{}", id1, id2)
LinkKey(id1, id2) == id1 \o <<"-">> \o id2

\* the ISLLink built for one direction of a pair
NewLink(source_id, target_id, distance, bandwidth) ==
    [source_id |-> source_id, target_id |-> target_id, distance_km |-> distance,
     bandwidth_gbps |-> bandwidth, latency_ms |-> Rat(distance, SpeedOfLight),
     link_type |-> "Optical", active |-> TRUE]

\* the links and adjacency of m with those of a linked pair at the given
\* distance added
Linked(ns, m, id1, id2, distance) ==
    LET bandwidth == IMin(ns[id1].isl_bandwidth_gbps, ns[id2].isl_bandwidth_gbps)
        link1 == NewLink(id1, id2, distance, bandwidth)
        link2 == NewLink(id2, id1, distance, bandwidth)
        lk == Insert(Insert(m.links, LinkKey(id1, id2), link1), LinkKey(id2, id1), link2)
        adj1 == [m.adjacency EXCEPT ![id1] = @ \cup {id2}]
    IN [links |-> lk, adjacency |-> [adj1 EXCEPT ![id2] = @ \cup {id1}]]

\* the body of the pair loop of update_topology for node_ids[i], node_ids[j]
LinkPair(ns, m, id1, id2) ==
    CHOOSE r \in { IF distance <= IMin(ns[id1].isl_range_km, ns[id2].isl_range_km)
                      /\ HasLineOfSight(ns[id1], ns[id2])
                   THEN Linked(ns, m, id1, id2, distance)
                   ELSE m :
                     distance \in {CalculateDistance(ns[id1], ns[id2])} } : TRUE

\* self.links.clear(); for adj in self.adjacency.values_mut() { adj.clear() }
ClearTopology(adj) == [links |-> EmptyMap, adjacency |-> [id \in DOMAIN adj |-> {}]]

\* the links.insert calls of for i in 0..node_ids.len() { for j in (i +
\* 1)..node_ids.len() { .. } }, numbered in the order the loops make them
\* (positions 1-based)
LinkInserts(ns, node_ids) ==
    LET n == Len(node_ids)
    IN UNION { { [at |-> 2 * (n * pr[1] + pr[2])
                         + IF k = LinkKey(node_ids[pr[1]], node_ids[pr[2]]) THEN 0 ELSE 1,
                  key |-> k, link |-> m.links[k]] : k \in DOMAIN m.links } :
               <<pr, m>> \in { <<q, LinkPair(ns, ClearTopology(ns), node_ids[q[1]],
                                            node_ids[q[2]])>> :
                                 q \in { q \in (1..n) \X (1..n) : q[1] < q[2] } } }

\* the links and adjacency the inserts ins leave: under each key the link
\* inserted last, and for each node the nodes it was linked with
TopologyOf(ins, adj) ==
    [links |-> [k \in { e.key : e \in ins } |->
                  (CHOOSE e \in ins :
                      e.key = k /\ \A f \in ins : f.key = k => f.at <= e.at).link],
     adjacency |-> [id \in DOMAIN adj |->
                      { e.link.target_id : e \in { f \in ins : f.link.source_id = id } }]]

\* the links and adjacency update_topology leaves, with the node ids
\* collected from the HashMap in the order node_ids
Rebuilt(ns, adj, node_ids) ==
    CHOOSE t \in { TopologyOf(ins, adj) : ins \in {LinkInserts(ns, node_ids)} } : TRUE

\* f64::INFINITY, kept apart from the rationals (it is only compared,
\* never added to)
Infinity == [n |-> 1, d |-> 0]

\* x < y on f64 values that may be INFINITY
CostLt(x, y) ==
    IF x = Infinity THEN FALSE
    ELSE IF y = Infinity THEN TRUE
    ELSE RLt(x, y)

\* impl Ord for DijkstraState:
\* other.cost.partial_cmp(&self.cost).unwrap_or(Ordering::Equal)
DijkstraCmp(self, other) ==
    IF CostLt(other.cost, self.cost) THEN "Less"
    ELSE IF CostLt(self.cost, other.cost) THEN "Greater"
    ELSE "Equal"

\* a <= b as BinaryHeap evaluates it through Ord for DijkstraState
DijkstraLe(a, b) == DijkstraCmp(a, b) # "Greater"

\* BinaryHeap::sift_up over DijkstraState, positions 1-based
RECURSIVE PqSiftUp(_, _, _, _)
PqSiftUp(data, start, pos, e) ==
    IF pos > start
    THEN LET parent == pos \div 2
         IN IF DijkstraLe(e, data[parent])
            THEN [data EXCEPT ![pos] = e]
            ELSE PqSiftUp([data EXCEPT ![pos] = data[parent]], start, parent, e)
    ELSE [data EXCEPT ![pos] = e]

\* BinaryHeap::sift_down_to_bottom over DijkstraState
RECURSIVE PqSiftDownToBottom(_, _, _)
PqSiftDownToBottom(data, pos, e) ==
    LET end == Len(data)
    IN IF 2 * pos + 1 <= end
       THEN LET child == IF DijkstraLe(data[2 * pos], data[2 * pos + 1])
                         THEN 2 * pos + 1 ELSE 2 * pos
            IN PqSiftDownToBottom([data EXCEPT ![pos] = data[child]], child, e)
       ELSE IF 2 * pos = end
            THEN PqSiftUp([data EXCEPT ![pos] = data[2 * pos]], 1, 2 * pos, e)
            ELSE PqSiftUp(data, 1, pos, e)

\* pq.push(DijkstraState { cost, node_id })
PqPush(data, t) == PqSiftUp(Append(data, t), 1, Len(data) + 1, t)

\* pq.pop() on a non-empty heap: the heap left behind
PqPopRest(data) ==
    LET last == data[Len(data)]
        rest == SubSeq(data, 1, Len(data) - 1)
    IN IF Len(rest) = 0 THEN rest ELSE PqSiftDownToBottom(rest, 1, last)

\* the invalid Route with the source left in its path (a plausible slip)
InvalidRouteKeepsSource(source_id, destination_id) ==
    [source_id |-> source_id, destination_id |-> destination_id,
     path |-> <<source_id>>, total_distance_km |-> Zero, total_latency_ms |-> Zero,
     min_bandwidth_gbps |-> Zero, num_hops |-> 0]

\* the Route returned for an unknown id or an unreachable destination
InvalidRoute(source_id, destination_id) ==
    [source_id |-> source_id, destination_id |-> destination_id,
     path |-> <<>>, total_distance_km |-> Zero, total_latency_ms |-> Zero,
     min_bandwidth_gbps |-> Zero, num_hops |-> 0]

\* the self route with the bandwidth of an empty path, 0.0 (a plausible slip)
SelfRouteNoBandwidth(source_id) ==
    [source_id |-> source_id, destination_id |-> source_id,
     path |-> <<source_id>>, total_distance_km |-> Zero, total_latency_ms |-> Zero,
     min_bandwidth_gbps |-> Zero, num_hops |-> 0]

\* the Route returned for source_id == destination_id
SelfRoute(source_id) ==
    [source_id |-> source_id, destination_id |-> source_id,
     path |-> <<source_id>>, total_distance_km |-> Zero, total_latency_ms |-> Zero,
     min_bandwidth_gbps |-> Infinity, num_hops |-> 0]

\* distances.get(id).unwrap_or(&f64::INFINITY)
DistanceOf(distances, id) ==
    IF id \in DOMAIN distances THEN distances[id] ELSE Infinity

\* the body of for neighbor_id in neighbors { .. } for one neighbour: the
\* search state it leaves
RelaxNeighbor(m, c, node_id, cost, neighbor_id) ==
    LET link_key == LinkKey(node_id, neighbor_id)
    IN IF neighbor_id \in c.visited THEN c
       ELSE IF link_key \notin DOMAIN m.links THEN c
       ELSE IF ~m.links[link_key].active THEN c
       ELSE LET new_cost == RAdd(cost, m.links[link_key].latency_ms)
            IN IF CostLt(new_cost, DistanceOf(c.distances, neighbor_id))
               THEN [c EXCEPT
                       !.distances = Insert(@, neighbor_id, new_cost),
                       !.predecessors = Insert(@, neighbor_id, <<node_id>>),
                       !.pq = PqPush(@, [cost |-> new_cost, node_id |-> neighbor_id])]
               ELSE c

\* for neighbor_id in neighbors { .. }, the neighbours taken in the order
\* the HashSet yields them; each turn starts from the state the turn before
\* left (the singleton binds it)
RECURSIVE Relax(_, _, _, _, _, _)
Relax(m, c, node_id, cost, neighbors, k) ==
    IF k > Len(neighbors) THEN c
    ELSE CHOOSE r \in { Relax(m, c1, node_id, cost, neighbors, k + 1) :
                          c1 \in {RelaxNeighbor(m, c, node_id, cost, neighbors[k])} } : TRUE

\* while let Some(DijkstraState { cost, node_id }) = pq.pop() { .. }: the
\* states the loop can end in, over the iteration orders of the HashSets.
\* A visited neighbour is skipped without effect, so the orders are taken
\* over the neighbours not yet visited
RECURSIVE DijkstraRuns(_, _, _)
RECURSIVE DijkstraTurn(_, _, _, _)
DijkstraRuns(m, c, destination_id) ==
    IF Len(c.pq) = 0 THEN {c}
    ELSE UNION { DijkstraTurn(m, c.pq[1], popped, destination_id) :
                   popped \in {[c EXCEPT !.pq = PqPopRest(@)]} }

\* the body of the while loop for the state top popped off the heap
DijkstraTurn(m, top, popped, destination_id) ==
    IF top.node_id \in popped.visited
    THEN DijkstraRuns(m, popped, destination_id)
    ELSE UNION { IF top.node_id = destination_id THEN {c2}
                 ELSE IF top.node_id \in DOMAIN m.adjacency
                 THEN UNION { DijkstraRuns(m, c3, destination_id) :
                                c3 \in { Relax(m, c2, top.node_id, top.cost, neighbors, 1) :
                                           neighbors \in
                                             Orders(m.adjacency[top.node_id] \ c2.visited) } }
                 ELSE DijkstraRuns(m, c2, destination_id) :
                   c2 \in {[popped EXCEPT !.visited = @ \cup {top.node_id}]} }

\* distances, predecessors, visited and pq as find_route sets them up
DijkstraStart(m, source_id) ==
    [distances |-> Insert([k \in DOMAIN m.nodes |-> Infinity], source_id, Zero),
     predecessors |-> [k \in DOMAIN m.nodes |-> <<>>],
     visited |-> {},
     pq |-> PqPush(<<>>, [cost |-> Zero, node_id |-> source_id])]

\* while let Some(ref id) = current { path.push(..); current = .. }: the
\* path from the destination back to the source
RECURSIVE PathBack(_, _, _)
PathBack(predecessors, current, path) ==
    IF current = <<>> THEN path
    ELSE CHOOSE r \in { PathBack(predecessors,
                                 IF id \in DOMAIN predecessors THEN predecessors[id]
                                 ELSE <<>>,
                                 p) :
                          id \in {current[1]}, p \in {Append(path, current[1])} } : TRUE

\* path.reverse()
Reverse(s) == [i \in 1..Len(s) |-> s[Len(s) + 1 - i]]

\* for i in 0..(path.len() - 1) { .. }: the totals over the links found
RECURSIVE PathTotals(_, _, _, _)
PathTotals(m, path, i, t) ==
    IF i > Len(path) - 1 THEN t
    ELSE LET link_key == LinkKey(path[i], path[i + 1])
         IN IF link_key \in DOMAIN m.links
            THEN CHOOSE r \in
                    { PathTotals(m, path, i + 1, t1) :
                        t1 \in { [total_distance |->
                                     RAdd(t.total_distance, FromInt(link.distance_km)),
                                 total_latency |-> RAdd(t.total_latency, link.latency_ms),
                                 min_bandwidth |->
                                     IF CostLt(FromInt(link.bandwidth_gbps), t.min_bandwidth)
                                     THEN FromInt(link.bandwidth_gbps)
                                     ELSE t.min_bandwidth] :
                                  link \in {m.links[link_key]} } } : TRUE
            ELSE PathTotals(m, path, i + 1, t)

\* (x * scale).round() / scale
RoundTo(x, scale) == RDiv(RRound(RMul(x, FromInt(scale))), FromInt(scale))

\* the Route built from a finished search
RouteOf(m, c, source_id, destination_id) ==
    IF DistanceOf(c.distances, destination_id) = Infinity
    THEN InvalidRoute(source_id, destination_id)
    ELSE CHOOSE r \in
            UNION { { [source_id |-> source_id, destination_id |-> destination_id,
                       path |-> path,
                       total_distance_km |-> RoundTo(t.total_distance, 100),
                       total_latency_ms |-> RoundTo(t.total_latency, 1000),
                       min_bandwidth_gbps |-> IF t.min_bandwidth = Infinity THEN Zero
                                              ELSE t.min_bandwidth,
                       num_hops |-> 0] :
                        t \in { PathTotals(m, path, 1,
                                           [total_distance |-> Zero, total_latency |-> Zero,
                                            min_bandwidth |-> Infinity]) } } :
                    path \in { Reverse(PathBack(c.predecessors, <<destination_id>>,
                                                <<>>)) } } : TRUE

\* SpaceMesh::find_route: the routes it can return on the mesh m
FindRoutes(m, source_id, destination_id) ==
    IF source_id \notin DOMAIN m.nodes \/ destination_id \notin DOMAIN m.nodes
    THEN {InvalidRoute(source_id, destination_id)}
    ELSE IF source_id = destination_id THEN {SelfRoute(source_id)}
    ELSE {RouteOf(m, c, source_id, destination_id) :
            c \in DijkstraRuns(m, DijkstraStart(m, source_id), destination_id)}

\* the mesh as find_route reads it
Mesh == [nodes |-> nodes, links |-> links, adjacency |-> adjacency]

\* the link and adjacency state of the mesh
Topology == [links |-> links, adjacency |-> adjacency]

\* find_route(&self) taken while update_topology(&mut self) is under way
\* (what sharing the mesh without exclusion would allow)
BorrowUnchecked(r) == TRUE

\* &self can be borrowed only while no &mut self call is under way
CanBorrowShared(r) == r.pc = "idle"

\* the elements of S in one order
RECURSIVE SomeOrder(_)
SomeOrder(S) ==
    IF S = {} THEN <<>>
    ELSE LET x == CHOOSE x \in S : TRUE IN <<x>> \o SomeOrder(S \ {x})

\* two different pairs of the ids S format to one link key
SharedLinkKey(S) ==
    \E a, b, c, d \in S :
        a # b /\ c # d /\ <<a, b>> # <<c, d>> /\ LinkKey(a, b) = LinkKey(c, d)

\* node_ids = self.nodes.keys().cloned().collect(): the orders the HashMap
\* may yield its keys in.  Where no two pairs share a link key every key is
\* inserted once and the adjacency sets are unions, so the maps built do not
\* depend on the order and one order stands for all
NodeIdOrders(S) ==
    IF SharedLinkKey(S) THEN Orders(S) ELSE {SomeOrder(S)}

\* no find_route result at hand
NoRoute == [kind |-> "none", result |-> InvalidRoute(<<>>, <<>>)]

\* the mesh did not come from create_constellation, or was changed since
NotCreated == [made |-> FALSE]

\* no update_topology under way
Idle == [pc |-> "idle", node_ids |-> <<>>, i |-> 0, j |-> 0]

\* SpaceMesh::add_node
AddNodeStep ==
    /\ rebuild = Idle
    /\ adds < MaxAdds
    /\ \E node \in NodePool :
          /\ adjacency' = Insert(adjacency, node.node_id, {})
          /\ nodes' = Insert(nodes, node.node_id, node)
    /\ adds' = adds + 1
    /\ route' = NoRoute
    /\ created' = NotCreated
    /\ UNCHANGED <<links, rebuild>>
    /\ UNCHANGED <<queueVars, aggVars, compVars, partVars, topoVars>>

AddNode == AddNodeStep /\ UNCHANGED built

\* SpaceMesh::update_topology, as one step
UpdateTopology ==
    /\ rebuild = Idle
    /\ \E m \in { Rebuilt(nodes, adjacency, node_ids) :
                     node_ids \in NodeIdOrders(DOMAIN nodes) } :
          /\ links' = m.links
          /\ adjacency' = m.adjacency
    /\ route' = NoRoute
    /\ created' = NotCreated
    /\ UNCHANGED <<nodes, adds, rebuild, built>>
    /\ UNCHANGED <<queueVars, aggVars, compVars, partVars, topoVars>>

\* SpaceMesh::find_route
FindRoute ==
    /\ CanBorrowShared(rebuild)
    /\ \E source_id \in MeshIds, destination_id \in MeshIds :
          \E r \in FindRoutes(Mesh, source_id, destination_id) :
             route' = [kind |-> "ok", result |-> r]
    /\ UNCHANGED <<nodes, links, adjacency, adds, rebuild, built, created>>
    /\ UNCHANGED <<queueVars, aggVars, compVars, partVars, topoVars>>

\* SpaceMesh::add_node, with the topology it leaves recorded as the last
\* complete one
AddNodeTracked ==
    /\ AddNodeStep
    /\ built' = [built EXCEPT !.before = [links |-> links, adjacency |-> adjacency'],
                               !.after = {}]

\* update_topology taken statement by statement: the two clears and the
\* collection of node_ids
BeginUpdate ==
    /\ rebuild = Idle
    /\ \E node_ids \in NodeIdOrders(DOMAIN nodes) :
          /\ rebuild' = [pc |-> "building", node_ids |-> node_ids, i |-> 1, j |-> 2]
          /\ built' = [before |-> Topology,
                       after |-> {Rebuilt(nodes, adjacency, node_ids)},
                       halfway |-> FALSE]
    /\ links' = ClearTopology(adjacency).links
    /\ adjacency' = ClearTopology(adjacency).adjacency
    /\ route' = NoRoute
    /\ created' = NotCreated
    /\ UNCHANGED <<nodes, adds>>
    /\ UNCHANGED <<queueVars, aggVars, compVars, partVars, topoVars>>

\* one turn of the pair loop of update_topology
StepUpdate ==
    /\ rebuild.pc = "building"
    /\ rebuild.i <= Len(rebuild.node_ids)
    /\ IF rebuild.j > Len(rebuild.node_ids)
       THEN /\ rebuild' = [rebuild EXCEPT !.i = @ + 1, !.j = rebuild.i + 2]
            /\ UNCHANGED <<links, adjacency>>
       ELSE LET m == LinkPair(nodes, Topology, rebuild.node_ids[rebuild.i],
                              rebuild.node_ids[rebuild.j])
            IN /\ links' = m.links
               /\ adjacency' = m.adjacency
               /\ rebuild' = [rebuild EXCEPT !.j = @ + 1]
    /\ built' = [built EXCEPT !.halfway =
                    @ \/ [links |-> links', adjacency |-> adjacency']
                            \notin ({built.before} \cup built.after)]
    /\ route' = NoRoute
    /\ created' = NotCreated
    /\ UNCHANGED <<nodes, adds>>
    /\ UNCHANGED <<queueVars, aggVars, compVars, partVars, topoVars>>

\* update_topology returns and gives up its exclusive borrow
EndUpdate ==
    /\ rebuild.pc = "building"
    /\ rebuild.i > Len(rebuild.node_ids)
    /\ rebuild' = Idle
    /\ built' = [built EXCEPT !.before = Topology, !.after = {}]
    /\ route' = NoRoute
    /\ UNCHANGED <<nodes, links, adjacency, adds, created>>
    /\ UNCHANGED <<queueVars, aggVars, compVars, partVars, topoVars>>

-----------------------------------------------------------------------------
(* mesh.rs: create_constellation.                                          *)

MaxPlanes == 3
MaxSatsPerPlane == 4

\* what "{}" prints for a usize
DigitChars == <<"0", "1", "2", "3", "4", "5", "6", "7", "8", "9">>

RECURSIVE Decimal(_)
Decimal(n) ==
    IF n < 10 THEN <<DigitChars[n + 1]>>
    ELSE Append(Decimal(n \div 10), DigitChars[(n % 10) + 1])

\* format!("{}_P{}_S{}", name, plane, sat) with the plane left out (a
\* plausible slip)
ConstellationNodeIdNoPlane(name, plane, sat) == name \o <<"_S">> \o Decimal(sat)

\* format!("{}_P{}_S{}", name, plane, sat)
ConstellationNodeId(name, plane, sat) ==
    name \o <<"_P">> \o Decimal(plane) \o <<"_S">> \o Decimal(sat)

\* the constellation names, shapes and orbits create_constellation is called
\* with; the two long shapes reach two-digit plane and satellite numbers
ConstellationNames == {<<"test">>, <<"leo">>}

ConstellationShapes ==
    ((0..MaxPlanes) \X (0..MaxSatsPerPlane)) \cup {<<1, 12>>, <<12, 1>>}

ConstellationInclinations == {50, 55}

ConstellationRanges == {1668, 1835}

\* the OrbitalNode built in the inner loop; the angles are whole degrees
ConstellationNode(c, plane, sat) ==
    [node_id |-> ConstellationNodeId(c.name, plane, sat),
     orbit_altitude_km |-> c.altitude_km,
     orbit_inclination_deg |-> c.inclination_deg,
     raan_deg |-> (360 \div c.num_planes) * plane,
     mean_anomaly_deg |-> (360 \div c.sats_per_plane) * sat
                          + (360 \div (c.num_planes * c.sats_per_plane)) * plane,
     isl_range_km |-> c.isl_range_km,
     isl_bandwidth_gbps |-> 10]

\* SpaceMesh::add_node on the mesh m
AddNodeTo(m, node) ==
    [nodes |-> Insert(m.nodes, node.node_id, node),
     links |-> m.links,
     adjacency |-> Insert(m.adjacency, node.node_id, {})]

\* the two loops of create_constellation, from (plane, sat) on
RECURSIVE ConstellationNodes(_, _, _, _)
ConstellationNodes(m, c, plane, sat) ==
    IF plane >= c.num_planes THEN m
    ELSE IF sat >= c.sats_per_plane THEN ConstellationNodes(m, c, plane + 1, 0)
    ELSE CHOOSE r \in { ConstellationNodes(m1, c, plane, sat + 1) :
                          m1 \in {AddNodeTo(m, ConstellationNode(c, plane, sat))} } : TRUE

\* the meshes create_constellation may return
Constellations(c) ==
    LET empty == [nodes |-> EmptyMap, links |-> EmptyMap, adjacency |-> EmptyMap]
    IN UNION { { [nodes |-> m.nodes, links |-> t.links, adjacency |-> t.adjacency] :
                   t \in { Rebuilt(m.nodes, m.adjacency, node_ids) :
                              node_ids \in NodeIdOrders(DOMAIN m.nodes) } } :
               m \in {ConstellationNodes(empty, c, 0, 0)} }

\* create_constellation: a new mesh, its nodes added and its topology rebuilt
CreateConstellation ==
    /\ created = NotCreated
    /\ adds = 0
    /\ rebuild = Idle
    /\ \E name \in ConstellationNames, shape \in ConstellationShapes,
          inclination_deg \in ConstellationInclinations,
          isl_range_km \in ConstellationRanges :
          LET c == [made |-> TRUE, name |-> name, num_planes |-> shape[1],
                    sats_per_plane |-> shape[2], altitude_km |-> 183,
                    inclination_deg |-> inclination_deg,
                    isl_range_km |-> isl_range_km]
          IN /\ \E m \in Constellations(c) :
                   /\ nodes' = m.nodes
                   /\ links' = m.links
                   /\ adjacency' = m.adjacency
             /\ adds' = c.num_planes * c.sats_per_plane
             /\ created' = c
    /\ route' = NoRoute
    /\ UNCHANGED <<rebuild, built>>
    /\ UNCHANGED <<queueVars, aggVars, compVars, partVars, topoVars>>

-----------------------------------------------------------------------------
(* partitioning.rs: ModelProfile, PartitionPlan, PartitionOptimizer.       *)
(* flops are counted in GFLOP and sizes in kB, so that the 1e12 of         *)
(* create_plan is 1000 here and its 1e6 is 1000; altitudes are in the      *)
(* length unit of the mesh.                                                *)

MaxLayers == 3

\* f64 arithmetic with the infinities: [n |-> 1, d |-> 0] is INFINITY,
\* [n |-> -1, d |-> 0] is -INFINITY and [n |-> 0, d |-> 0] is NaN
IsInf(x) == x.d = 0 /\ x.n # 0

Sign(i) == IF i < 0 THEN -1 ELSE IF i > 0 THEN 1 ELSE 0

SignedInfinity(s) == [n |-> s, d |-> 0]

FAdd(x, y) ==
    IF x = NaN \/ y = NaN THEN NaN
    ELSE IF IsInf(x) THEN (IF IsInf(y) /\ y # x THEN NaN ELSE x)
    ELSE IF IsInf(y) THEN y
    ELSE RAdd(x, y)

FMul(x, y) ==
    IF x = NaN \/ y = NaN THEN NaN
    ELSE IF IsInf(x) \/ IsInf(y)
         THEN (IF x.n = 0 \/ y.n = 0 THEN NaN ELSE SignedInfinity(Sign(x.n) * Sign(y.n)))
    ELSE RMul(x, y)

\* a zero divisor is +0.0
FDiv(x, y) ==
    IF x = NaN \/ y = NaN THEN NaN
    ELSE IF IsInf(x) THEN (IF IsInf(y) THEN NaN
                           ELSE SignedInfinity(IF y.n < 0 THEN -x.n ELSE x.n))
    ELSE IF IsInf(y) THEN Zero
    ELSE IF y.n = 0 THEN (IF x.n = 0 THEN NaN ELSE SignedInfinity(Sign(x.n)))
    ELSE Rat(x.n * y.d, x.d * y.n)

\* x < y; every comparison with NaN is false
FLt(x, y) ==
    /\ x # NaN
    /\ y # NaN
    /\ IF IsInf(x) THEN x.n < 0 /\ y # x
       ELSE IF IsInf(y) THEN y.n > 0
       ELSE x.n * y.d < y.n * x.d

\* x >= y
FGe(x, y) == x # NaN /\ y # NaN /\ ~FLt(x, y)

\* impl Default for PartitionOptimizer: 100 and 10 TFLOPS, 550 km, 100 and
\* 200 Mbps
OptimizerDefault ==
    [ground_compute_tflops |-> FromInt(100), orbital_compute_tflops |-> FromInt(10),
     orbit_altitude_km |-> FromInt(183), uplink_bandwidth_mbps |-> FromInt(100),
     downlink_bandwidth_mbps |-> FromInt(200)]

\* PartitionOptimizer::new
OptimizerNew(ground_tflops, orbital_tflops) ==
    [OptimizerDefault EXCEPT !.ground_compute_tflops = ground_tflops,
                             !.orbital_compute_tflops = orbital_tflops]

\* the optimizers optimize is called on; the fields are public, and the last
\* one has its uplink bandwidth set to zero
Optimizers ==
    { OptimizerDefault,
      OptimizerNew(FromInt(10), FromInt(10)),
      OptimizerNew(FromInt(10), FromInt(100)),
      OptimizerNew(Zero, FromInt(10)),
      OptimizerNew(FromInt(100), Zero),
      OptimizerNew(Zero, Zero),
      [OptimizerDefault EXCEPT !.uplink_bandwidth_mbps = Zero] }

\* the LayerProfile values models are made of
LayerPool ==
    { [name |-> "embedding", flops |-> 0, input_size |-> 0, output_size |-> 2],
      [name |-> "attention", flops |-> 3, input_size |-> 2, output_size |-> 2],
      [name |-> "ffn", flops |-> 5, input_size |-> 2, output_size |-> 1],
      [name |-> "output", flops |-> 1, input_size |-> 1, output_size |-> 3] }

\* ModelProfile::new followed by add_layer calls
Models ==
    { [name |-> "m", layers |-> ls] :
        ls \in UNION { [1..n -> LayerPool] : n \in 0..MaxLayers } }

Objectives == {"MinimizeLatency", "MinimizeBandwidth", "Balance", "MaximizeThroughput"}

\* the location of layer i with a third value at the cut (a plausible slip)
LocationSplitAtCut(i, split_idx) ==
    IF i < split_idx THEN "Ground" ELSE IF i = split_idx THEN "Split" ELSE "Orbital"

\* if i < split_idx { Ground } else { Orbital }
Location(i, split_idx) == IF i < split_idx THEN "Ground" ELSE "Orbital"

\* the body of the loop of create_plan for layer i (0-based): the
\* LayerPlacement pushed
PlaceLayer(opt, model, split_idx, i) ==
    LET layer == model.layers[i + 1]
        location == Location(i, split_idx)
        compute_tflops == IF location = "Ground" THEN opt.ground_compute_tflops
                          ELSE opt.orbital_compute_tflops
        compute_ms == FMul(FDiv(FromInt(layer.flops), FMul(compute_tflops, FromInt(1000))),
                           FromInt(1000))
        at_cut == i = split_idx /\ split_idx > 0 /\ split_idx < Len(model.layers)
        transfer_bytes == IF at_cut THEN layer.input_size ELSE 0
        transfer_latency ==
            FMul(FDiv(FMul(FromInt(transfer_bytes), FromInt(8)),
                      FMul(opt.uplink_bandwidth_mbps, FromInt(1000))),
                 FromInt(1000))
        propagation == FMul(FDiv(opt.orbit_altitude_km, FromInt(SpeedOfLight * 1000)),
                            FromInt(1000))
    IN [layer_name |-> layer.name,
        location |-> location,
        node_id |-> "None",
        estimated_latency_ms |-> IF at_cut
                                 THEN FAdd(compute_ms, FAdd(transfer_latency, propagation))
                                 ELSE compute_ms,
        data_transfer_bytes |-> transfer_bytes]

\* the loop of create_plan from layer i on, plan holding what the earlier
\* turns accumulated
RECURSIVE CreatePlanFrom(_, _, _, _, _)
CreatePlanFrom(opt, model, split_idx, i, plan) ==
    IF i >= Len(model.layers) THEN plan
    ELSE LET placement == PlaceLayer(opt, model, split_idx, i)
             transfers == i = split_idx /\ split_idx > 0 /\ split_idx < Len(model.layers)
         IN CreatePlanFrom(opt, model, split_idx, i + 1,
               [plan EXCEPT
                  !.placements = Append(@, placement),
                  !.total_latency_ms = FAdd(@, placement.estimated_latency_ms),
                  !.total_transfer_bytes = @ + placement.data_transfer_bytes,
                  !.ground_orbital_transfers = IF transfers THEN @ + 1 ELSE @])

\* PartitionOptimizer::create_plan
CreatePlan(opt, model, split_idx, objective) ==
    CreatePlanFrom(opt, model, split_idx, 0,
        [model_name |-> model.name, placements |-> <<>>, total_latency_ms |-> Zero,
         ground_orbital_transfers |-> 0, total_transfer_bytes |-> 0,
         objective |-> objective])

\* the loop of find_best_latency_split from cut i on, up to the cut last
RECURSIVE BestLatencyFrom(_, _, _, _, _, _)
BestLatencyFrom(opt, model, i, last, best_idx, best_latency) ==
    IF i > last THEN best_idx
    ELSE LET plan == CreatePlan(opt, model, i, "MinimizeLatency")
         IN IF FLt(plan.total_latency_ms, best_latency)
            THEN BestLatencyFrom(opt, model, i + 1, last, i, plan.total_latency_ms)
            ELSE BestLatencyFrom(opt, model, i + 1, last, best_idx, best_latency)

\* find_best_latency_split over 0..layers.len(), the last cut left out (a
\* plausible slip)
FindBestLatencySplitExclusive(opt, model) ==
    BestLatencyFrom(opt, model, 0, Len(model.layers) - 1, 0, Infinity)

\* PartitionOptimizer::find_best_latency_split
FindBestLatencySplit(opt, model) ==
    BestLatencyFrom(opt, model, 0, Len(model.layers), 0, Infinity)

\* the loop of find_min_bandwidth_split from layer i on; unset stands for
\* min_size = u64::MAX, which every size of the model is below
RECURSIVE MinBandwidthFrom(_, _, _, _, _)
MinBandwidthFrom(model, i, min_idx, min_size, unset) ==
    IF i >= Len(model.layers) THEN min_idx
    ELSE LET size == model.layers[i + 1].output_size
         IN IF unset \/ size < min_size
            THEN MinBandwidthFrom(model, i + 1, i + 1, size, FALSE)
            ELSE MinBandwidthFrom(model, i + 1, min_idx, min_size, unset)

\* PartitionOptimizer::find_min_bandwidth_split
FindMinBandwidthSplit(model) == MinBandwidthFrom(model, 0, 0, 0, TRUE)

\* ModelProfile::total_flops
RECURSIVE TotalFlops(_, _)
TotalFlops(model, i) ==
    IF i >= Len(model.layers) THEN 0
    ELSE model.layers[i + 1].flops + TotalFlops(model, i + 1)

\* the loop of find_balanced_split from layer i on
RECURSIVE BalancedFrom(_, _, _, _)
BalancedFrom(model, target, i, cumulative) ==
    IF i >= Len(model.layers) THEN Len(model.layers)
    ELSE LET sum == FAdd(cumulative, FromInt(model.layers[i + 1].flops))
         IN IF FGe(sum, target) THEN i + 1
            ELSE BalancedFrom(model, target, i + 1, sum)

\* PartitionOptimizer::find_balanced_split
FindBalancedSplit(opt, model) ==
    LET total_flops == FromInt(TotalFlops(model, 0))
        target == FDiv(FMul(total_flops, opt.ground_compute_tflops),
                       FAdd(opt.ground_compute_tflops, opt.orbital_compute_tflops))
    IN BalancedFrom(model, target, 0, Zero)

\* PartitionOptimizer::optimize
OptimizePlan(opt, model, objective) ==
    LET split_idx == IF objective = "MinimizeLatency" THEN FindBestLatencySplit(opt, model)
                     ELSE IF objective = "MinimizeBandwidth" THEN FindMinBandwidthSplit(model)
                     ELSE FindBalancedSplit(opt, model)
    IN CreatePlan(opt, model, split_idx, objective)

\* an optimizer and a model profile, and no optimize call made
NoPlan(opt, model) == [kind |-> "none", optimizer |-> opt, model |-> model]

\* ModelProfile::new
ModelNew(name) == [name |-> name, layers |-> <<>>]

\* a call of optimize on the optimizer, for the model
Optimize ==
    /\ \E objective \in Objectives :
          partition' = [kind |-> "plan", optimizer |-> partition.optimizer,
                        model |-> partition.model, objective |-> objective,
                        plan |-> OptimizePlan(partition.optimizer, partition.model,
                                              objective)]
    /\ UNCHANGED <<queueVars, aggVars, compVars, meshVars, topoVars>>

-----------------------------------------------------------------------------
(* core.rs: NodeConfig, Topology.                                          *)

\* connections held by one topology
MaxConnections == 3

\* NodeConfig::orbital
NodeConfigOrbital(node_id, altitude_km, compute_tflops) ==
    [node_id |-> node_id, node_type |-> "Orbital", compute_tflops |-> compute_tflops,
     memory_gb |-> 32, bandwidth_mbps |-> 100, orbit_altitude_km |-> <<altitude_km>>,
     location |-> <<>>]

\* NodeConfig::ground
NodeConfigGround(node_id, lat, lon, compute_tflops) ==
    [node_id |-> node_id, node_type |-> "Ground", compute_tflops |-> compute_tflops,
     memory_gb |-> 256, bandwidth_mbps |-> 1000, orbit_altitude_km |-> <<>>,
     location |-> <<<<lat, lon>>>>]

\* the node ids handed to the Topology calls
TopologyIds == {"ground-1", "sat-1", "sat-2"}

\* the NodeConfig values handed to add_node: one ground station, two
\* satellites, and a second configuration of one of them
NodeConfigs ==
    {NodeConfigGround("ground-1", 0, 0, 100), NodeConfigOrbital("sat-1", 550, 10),
     NodeConfigOrbital("sat-1", 550, 20), NodeConfigOrbital("sat-2", 550, 10)}

\* the bandwidths handed to add_connection
ConnectionBandwidths == {100}

\* no Topology call made yet
NoTopologyCall ==
    [op |-> "none", node1_id |-> "", node2_id |-> "", result |-> "", had |-> 0]

\* Topology::new
TopologyNew ==
    /\ topology_nodes = EmptyMap
    /\ connections = <<>>
    /\ topologyCall = NoTopologyCall

\* retain with || for &&: a connection goes only when both of its ends are
\* the node (a plausible slip)
RetainedEitherEnd(conns, node_id) ==
    SelectSeq(conns, LAMBDA c : c[1] # node_id \/ c[2] # node_id)

\* self.connections.retain(|(n1, n2, _)| n1 != node_id && n2 != node_id)
Retained(conns, node_id) ==
    SelectSeq(conns, LAMBDA c : c[1] # node_id /\ c[2] # node_id)

\* Topology::add_node
TopologyAddNode ==
    /\ \E node \in NodeConfigs :
          /\ topology_nodes' = Insert(topology_nodes, node.node_id, node)
          /\ topologyCall' = [op |-> "add_node", node1_id |-> node.node_id,
                              node2_id |-> "", result |-> "", had |-> Len(connections)]
    /\ UNCHANGED connections
    /\ UNCHANGED <<queueVars, aggVars, compVars, meshVars, partVars>>

\* Topology::remove_node
TopologyRemoveNode ==
    /\ \E node_id \in TopologyIds :
          /\ topology_nodes' =
                [id \in DOMAIN topology_nodes \ {node_id} |-> topology_nodes[id]]
          /\ connections' = Retained(connections, node_id)
          /\ topologyCall' = [op |-> "remove_node", node1_id |-> node_id,
                              node2_id |-> "", result |-> "", had |-> Len(connections)]
    /\ UNCHANGED <<queueVars, aggVars, compVars, meshVars, partVars>>

\* Topology::add_connection
TopologyAddConnection ==
    /\ \E node1_id \in TopologyIds, node2_id \in TopologyIds,
          bandwidth_mbps \in ConnectionBandwidths :
          IF node1_id \notin DOMAIN topology_nodes \/ node2_id \notin DOMAIN topology_nodes
          THEN /\ topologyCall' = [op |-> "add_connection", node1_id |-> node1_id,
                                   node2_id |-> node2_id, result |-> "Err",
                                   had |-> Len(connections)]
               /\ UNCHANGED <<topology_nodes, connections>>
          ELSE /\ Len(connections) < MaxConnections
               /\ connections' = Append(connections, <<node1_id, node2_id, bandwidth_mbps>>)
               /\ topologyCall' = [op |-> "add_connection", node1_id |-> node1_id,
                                   node2_id |-> node2_id, result |-> "Ok",
                                   had |-> Len(connections)]
               /\ UNCHANGED topology_nodes
    /\ UNCHANGED <<queueVars, aggVars, compVars, meshVars, partVars>>

-----------------------------------------------------------------------------
(* Initial states and specifications.                                      *)

\* PriorityQueue::new / SyncScheduler::new
QueueNew ==
    /\ heap = <<>>
    /\ counter = 0
    /\ popResult = <<>>
    /\ lastOp = "init"
    /\ assigned = <<>>

\* GradientAggregator::new(strategy, min_participants), model_size as given
AggregatorNew(s, mp, ms) ==
    /\ strategy = s
    /\ min_participants = mp
    /\ model_size = ms
    /\ pending = EmptyMap
    /\ round = 0
    /\ aggResult = NoResult
    /\ succeeded = 0
    /\ latest = EmptyMap
    /\ subs = <<>>
    /\ cur = EmptyMap

\* GradientCompressor::new(config)
CompressorNew(cfg) ==
    /\ config = cfg
    /\ error_accumulator = <<>>
    /\ calls = 0
    /\ lastCall = NoCall
    /\ owed = <<>>

\* SpaceMesh::new
MeshNew ==
    /\ nodes = EmptyMap
    /\ links = EmptyMap
    /\ adjacency = EmptyMap
    /\ route = NoRoute
    /\ adds = 0
    /\ rebuild = Idle
    /\ built = [before |-> [links |-> EmptyMap, adjacency |-> EmptyMap], after |-> {},
                halfway |-> FALSE]
    /\ created = NotCreated

\* the configuration of the compressor where it is left idle
IdleConfig ==
    [method |-> "TopKQuantized", k_ratio |-> Rat(1, 2), quantization_bits |-> 2,
     error_feedback |-> TRUE]

InitQueue ==
    /\ QueueNew
    /\ AggregatorNew("FedAvg", 1, <<>>)
    /\ CompressorNew(IdleConfig)
    /\ MeshNew
    /\ partition = NoPlan(OptimizerDefault, ModelNew("m"))
    /\ TopologyNew

InitAgg ==
    /\ QueueNew
    /\ \E s \in Strategies, mp \in MinParticipantsChoices, ms \in ModelSizeChoices :
          AggregatorNew(s, mp, ms)
    /\ CompressorNew(IdleConfig)
    /\ MeshNew
    /\ partition = NoPlan(OptimizerDefault, ModelNew("m"))
    /\ TopologyNew

InitCompress ==
    /\ QueueNew
    /\ AggregatorNew("FedAvg", 1, <<>>)
    /\ \E cfg \in Configs : CompressorNew(cfg)
    /\ MeshNew
    /\ partition = NoPlan(OptimizerDefault, ModelNew("m"))
    /\ TopologyNew

Init ==
    /\ QueueNew
    /\ \E s \in Strategies, mp \in MinParticipantsChoices, ms \in ModelSizeChoices :
          AggregatorNew(s, mp, ms)
    /\ \E cfg \in Configs : CompressorNew(cfg)
    /\ MeshNew
    /\ partition = NoPlan(OptimizerDefault, ModelNew("m"))
    /\ TopologyNew

InitMesh ==
    /\ QueueNew
    /\ AggregatorNew("FedAvg", 1, <<>>)
    /\ CompressorNew(IdleConfig)
    /\ MeshNew
    /\ partition = NoPlan(OptimizerDefault, ModelNew("m"))
    /\ TopologyNew

InitPartition ==
    /\ QueueNew
    /\ AggregatorNew("FedAvg", 1, <<>>)
    /\ CompressorNew(IdleConfig)
    /\ MeshNew
    /\ \E opt \in Optimizers, model \in Models : partition = NoPlan(opt, model)
    /\ TopologyNew

NextQueue == AddTask \/ ScheduleSync \/ PopTask

NextAgg == ReceiveGradients \/ Aggregate

NextAggTracked == ReceiveGradientsTracked \/ AggregateTracked

NextCompress == Compress

NextMesh == AddNode \/ UpdateTopology \/ FindRoute

NextConstellation == CreateConstellation

NextPartition == Optimize

NextTopology == TopologyAddNode \/ TopologyRemoveNode \/ TopologyAddConnection

NextMeshRebuild == AddNodeTracked \/ BeginUpdate \/ StepUpdate \/ EndUpdate \/ FindRoute

Next ==
    \/ NextQueue
    \/ NextAgg
    \/ NextCompress
    \/ NextMesh
    \/ NextConstellation
    \/ NextPartition
    \/ NextTopology

\* one queue under any sequence of add_task, schedule_sync and pop_task
SpecQueue == InitQueue /\ [][NextQueue]_vars

\* one aggregator under any sequence of receive_gradients and aggregate
SpecAgg == InitAgg /\ [][NextAgg]_vars

\* the same, with the fate of every submission followed
SpecAggTracked == InitAgg /\ [][NextAggTracked]_vars

\* one compressor under any sequence of compress calls
SpecCompress == InitCompress /\ [][NextCompress]_vars

\* one mesh under any sequence of add_node, update_topology and find_route
SpecMesh == InitMesh /\ [][NextMesh]_vars

\* the same, with update_topology taken statement by statement
SpecMeshRebuild == InitMesh /\ [][NextMeshRebuild]_vars

\* create_constellation alone
SpecConstellation == InitMesh /\ [][NextConstellation]_vars

\* the partition optimizer alone
SpecPartition == InitPartition /\ [][NextPartition]_vars

\* one topology under any sequence of add_node, remove_node and
\* add_connection
SpecTopology == InitQueue /\ [][NextTopology]_vars

\* the components side by side
Spec == Init /\ [][Next]_vars

-----------------------------------------------------------------------------
(* Claims about the priority queue (SpecQueue).                            *)

\* C1: a pop_task on a non-empty queue returns a task, and no task still
\* pending has a strictly higher priority tier than the one returned
\* (a lower number is a higher tier); a pop that returns None leaves an
\* empty queue behind.
C1_PopReturnsHighestTier ==
    lastOp = "pop" =>
        IF popResult = <<>> THEN Len(heap) = 0
        ELSE \A i \in DOMAIN heap : popResult[1].priority <= heap[i].priority

\* C1 witness: Low, Critical, High were added in that order and the first
\* pop returned the Critical task, leaving the two others pending.
C1_Witness ==
    /\ lastOp = "pop"
    /\ popResult = <<[task_id |-> TaskId(2), priority |-> Critical]>>
    /\ \E i, j \in DOMAIN heap :
          /\ heap[i] = [task_id |-> TaskId(1), priority |-> Low]
          /\ heap[j] = [task_id |-> TaskId(3), priority |-> High]

\* C2: the task ids handed out by add_task / schedule_sync are strictly
\* increasing in call order, so no id is ever handed out twice, whatever
\* pops happened in between.
C2_TaskIdsStrictlyIncreasing ==
    \A i, j \in DOMAIN assigned :
        i < j => /\ assigned[i] # assigned[j]
                 /\ IdNumber(assigned[i]) < IdNumber(assigned[j])

\* C2 witness: three ids were handed out and tasks were popped in between,
\* the last call being an add.
C2_Witness ==
    /\ Len(assigned) = 3
    /\ Len(heap) = 1
    /\ lastOp \in {"add", "schedule"}
    /\ popResult # <<>>

-----------------------------------------------------------------------------
(* Claims about the gradient aggregator (SpecAgg, SpecAggTracked).         *)

\* C3: receive_gradients is an upsert keyed by node id: num_participants()
\* is the number of distinct nodes that submitted since the last successful
\* aggregate, and the pending entry of each is its most recent submission.
C3_ReceiveIsUpsert ==
    /\ NumParticipants(pending) = Cardinality(DOMAIN latest)
    /\ DOMAIN pending = DOMAIN latest
    /\ \A n \in DOMAIN latest : pending[n] = latest[n]

\* C3 witness: two nodes are pending, one of them after its earlier
\* submission was replaced by a later one.
C3_Witness ==
    /\ NumParticipants(pending) = 2
    /\ \E i \in DOMAIN subs :
          /\ subs[i].state = "overwritten"
          /\ subs[i].node \in DOMAIN pending
          /\ cur[subs[i].node] > i

\* C4: aggregate() called with nothing pending returns the "no data" failure
\* and changes nothing: the round counter and the (empty) map stay as they
\* were.  A step that leaves an aggregate outcome behind is an aggregate call.
C4_EmptyAggregateFails ==
    [][(DOMAIN pending = {} /\ aggResult'.kind # "none") =>
          /\ aggResult'.kind = "err"
          /\ aggResult'.err = "No gradients to aggregate"
          /\ round' = round
          /\ pending' = pending
          /\ <<strategy, min_participants, model_size>>' =
                <<strategy, min_participants, model_size>>]_vars

\* C4 witness: after a successful round, an aggregate on the emptied map
\* failed and the round counter still reads 1.
C4_Witness ==
    /\ aggResult.kind = "err"
    /\ round = 1
    /\ DOMAIN pending = {}

\* C5: the round counter equals the number of aggregate calls that
\* succeeded, and right after a success nothing is pending.
C5_SuccessClearsAndCounts ==
    /\ round = succeeded
    /\ aggResult.kind = "ok" => NumParticipants(pending) = 0

\* C5 witness: the second successful aggregate has just returned.
C5_Witness ==
    /\ aggResult.kind = "ok"
    /\ round = 2
    /\ NumParticipants(aggResult.input) = 2

\* the value a gradient holds at index idx (0-based), when it covers it
Covers(g, idx) == \E i \in DOMAIN g.indices : g.indices[i] = idx

ValueAt(g, idx) == g.values[CHOOSE i \in DOMAIN g.indices : g.indices[i] = idx]

\* sum over the nodes of S covering idx of value x samples / total
RECURSIVE WeightedSum(_, _, _, _)
WeightedSum(p, S, idx, total) ==
    IF S = {} THEN Zero
    ELSE LET n == CHOOSE x \in S : TRUE
             rest == WeightedSum(p, S \ {n}, idx, total)
         IN IF Covers(p[n].gradient, idx)
            THEN RAdd(rest, RDiv(RMul(ValueAt(p[n].gradient, idx), FromInt(p[n].samples)),
                                 FromInt(total)))
            ELSE rest

\* the first half of C6: each entry is the sample-weighted sum
FedAvgIsWeightedSum ==
    (aggResult.kind = "ok" /\ strategy \in {"FedAvg", "WeightedAvg"}) =>
        LET p == aggResult.input
            total == SumSamples(p, DOMAIN p)
        IN \A pos \in DOMAIN aggResult.vec :
              aggResult.vec[pos] = WeightedSum(p, DOMAIN p, pos - 1, total)

\* the second half of C6: two nodes with equal sample counts average
FedAvgOfEqualSamplesIsMean ==
    (aggResult.kind = "ok" /\ strategy \in {"FedAvg", "WeightedAvg"}) =>
        LET p == aggResult.input
        IN \A a, b \in DOMAIN p :
              (a # b /\ DOMAIN p = {a, b} /\ p[a].samples = p[b].samples) =>
                 \A pos \in DOMAIN aggResult.vec :
                    (Covers(p[a].gradient, pos - 1) /\ Covers(p[b].gradient, pos - 1)) =>
                       aggResult.vec[pos] =
                          RDiv(RAdd(ValueAt(p[a].gradient, pos - 1),
                                    ValueAt(p[b].gradient, pos - 1)), FromInt(2))

\* C6: with FedAvg or WeightedAvg, each entry of the vector aggregate()
\* returns is the sum over the pending nodes covering it of
\* value x samples / total_samples; for two nodes with equal sample counts
\* every index covered by both holds the mean of the two values.
C6_FedAvgWeightedMean == FedAvgIsWeightedSum /\ FedAvgOfEqualSamplesIsMean

\* C6, for submissions that report at least one sample in total: the same
\* statement, which the code meets.
C6_HoldsForPositiveTotal ==
    (aggResult.kind = "ok" /\ SumSamples(aggResult.input, DOMAIN aggResult.input) > 0) =>
        C6_FedAvgWeightedMean

\* C7: no submission is lost: each one received is pending, was replaced by
\* a later one of its node before being combined, or left the map after
\* being combined into exactly one result; the map holds exactly the pending
\* ones.
C7_NoSubmissionLost ==
    /\ \A i \in DOMAIN subs :
          /\ subs[i].state \in {"pending", "overwritten", "consumed"}
          /\ subs[i].state = "consumed" => subs[i].combined = 1
          /\ subs[i].state \in {"pending", "overwritten"} => subs[i].combined = 0
          /\ subs[i].state = "pending" <=>
                (subs[i].node \in DOMAIN pending /\ subs[i].node \in DOMAIN cur
                 /\ cur[subs[i].node] = i)
    /\ DOMAIN cur = DOMAIN pending

\* C7 witness: one submission was combined into a result, one was replaced,
\* and the one that replaced it is pending.
C7_Witness ==
    \E i, j, k \in DOMAIN subs :
        /\ subs[i].state = "consumed"
        /\ subs[j].state = "overwritten"
        /\ subs[k].state = "pending"
        /\ subs[j].node = subs[k].node

\* C8: aggregate() never crashes: it returns a dense vector or a typed
\* failure, also when original_size differs between nodes or an index
\* reaches beyond the configured model_size.
C8_AggregateNeverPanics == aggResult.kind \in {"none", "ok", "err"}

\* C9: aggregate() succeeds only with at least min_participants distinct
\* nodes pending; attempted with fewer, it fails and leaves the pending
\* submissions in place.
C9_AggregateNeedsMinParticipants ==
    /\ aggResult.kind = "ok" => NumParticipants(aggResult.input) >= min_participants
    /\ (aggResult.kind # "none" /\ NumParticipants(aggResult.input) < min_participants) =>
          (aggResult.kind = "err" /\ pending = aggResult.input)

-----------------------------------------------------------------------------
(* Claims about the gradient compressor (SpecCompress).                    *)

\* the indices a CompressedGradient selects
Selected(c) == {c.indices[i] : i \in DOMAIN c.indices}

\* the input of the last call with the residual stored before it added
\* over the common prefix, when error feedback is enabled
CorrectedInput ==
    LET g == lastCall.input
        before == lastCall.before
    IN [i \in DOMAIN g |->
          IF config.error_feedback /\ before # <<>> /\ i <= Len(before[1])
          THEN RAdd(g[i], before[1][i]) ELSE g[i]]

\* the quantization step of the last call: the range of the selected
\* corrected values over 2^bits - 1
LastStep ==
    LET w == CorrectedInput
        S == {w[idx + 1] : idx \in Selected(lastCall.out)}
        lo == CHOOSE x \in S : \A y \in S : ~RLt(y, x)
        hi == CHOOSE x \in S : \A y \in S : ~RLt(x, y)
    IN RDiv(RSub(hi, lo), FromInt(Pow2(config.quantization_bits) - 1))

C11_NoneIsLossless ==
    (lastCall.kind = "ok" /\ config.method = "None") =>
        LET g == lastCall.input
            out == lastCall.out
        IN /\ Len(out.indices) = Len(g)
           /\ \A i \in DOMAIN out.indices : out.indices[i] = i - 1
           /\ out.values = g
           /\ out.compression_ratio = FromInt(1)

\* C11 witness: the second call of a None compressor with error feedback
\* enabled and k_ratio below 1 returned, on a non-empty input.
C11_Witness ==
    /\ lastCall.kind = "ok"
    /\ config.method = "None"
    /\ config.error_feedback
    /\ config.k_ratio # FromInt(1)
    /\ calls = 2
    /\ Len(lastCall.input) >= 2
    /\ lastCall.out.values = lastCall.input

\* the k of the claim, min(n, max(1, ceil(k_ratio * n))), stated by what a
\* ceiling is and not by the code's arithmetic
ExpectedKeep(n, r) ==
    CHOOSE k \in 1..n :
        /\ k = n \/ r.n * n <= k * r.d
        /\ k = 1 \/ (k - 1) * r.d < r.n * n

ActiveLinks(u, v) ==
    {k \in DOMAIN links :
        links[k].source_id = u /\ links[k].target_id = v /\ links[k].active}

\* the sequences of distinct registered nodes from source_id to destination_id
SimplePaths(source_id, destination_id) ==
    {p \in UNION {Orders(T) : T \in SUBSET (DOMAIN nodes)} :
        Len(p) >= 2 /\ p[1] = source_id /\ p[Len(p)] = destination_id}

\* each consecutive pair of p is joined by an active link from the one to
\* the other
LinkedPath(p) == \A i \in 1..(Len(p) - 1) : ActiveLinks(p[i], p[i + 1]) # {}

\* the sum of the latencies of the links along a linked path
RECURSIVE PathLatency(_, _)
PathLatency(p, i) ==
    IF i > Len(p) - 1 THEN Zero
    ELSE RAdd(links[CHOOSE k \in ActiveLinks(p[i], p[i + 1]) : TRUE].latency_ms,
              PathLatency(p, i + 1))

\* find_route was the last call, on registered and distinct ends
RoutedBetweenNodes ==
    /\ route.kind = "ok"
    /\ route.result.source_id \in DOMAIN nodes
    /\ route.result.destination_id \in DOMAIN nodes
    /\ route.result.source_id # route.result.destination_id

\* the returned path runs from the source to the destination over active
\* links and no linked path has a smaller latency
MinimumLatencyRoute ==
    LET r == route.result
        ps == {p \in SimplePaths(r.source_id, r.destination_id) : LinkedPath(p)}
    IN ps # {} =>
         /\ r.path \in ps
         /\ \A p \in ps : ~RLt(PathLatency(p, 1), PathLatency(r.path, 1))

\* C13: for registered source # destination, whenever some path over active
\* links joins them, the path find_route returns starts at the source, ends
\* at the destination, joins each consecutive pair by an active link, and
\* its latency is no greater than that of any other such path.
C13_RouteIsMinimumLatency == RoutedBetweenNodes => MinimumLatencyRoute

\* no node was registered twice and no two links share a key
NoReRegistrationNoCollision ==
    /\ adds = Cardinality(DOMAIN nodes)
    /\ \A u, v \in DOMAIN nodes :
          v \in adjacency[u] => ActiveLinks(u, v) # {}

\* C13, on meshes where every adjacency entry has its own link and no id
\* was registered twice
C13_HoldsWithoutReRegistration ==
    (RoutedBetweenNodes /\ NoReRegistrationNoCollision) => MinimumLatencyRoute

\* C14: find_route(A, A) on a registered A returns the path [A] with zero
\* hops, latency and distance and infinite minimum bandwidth, whatever the
\* links are.
C14_SelfRoute ==
    (/\ route.kind = "ok"
     /\ route.result.source_id = route.result.destination_id
     /\ route.result.source_id \in DOMAIN nodes) =>
        /\ route.result.path = <<route.result.source_id>>
        /\ route.result.num_hops = 0
        /\ route.result.total_latency_ms = Zero
        /\ route.result.total_distance_km = Zero
        /\ route.result.min_bandwidth_gbps = Infinity

\* C14 witness: a node that has links was routed to itself.
C14_Witness ==
    /\ route.kind = "ok"
    /\ route.result.source_id = route.result.destination_id
    /\ route.result.source_id \in DOMAIN nodes
    /\ adjacency[route.result.source_id] # {}
    /\ route.result.path = <<route.result.source_id>>

\* the query of the last find_route has an unregistered end, or registered
\* distinct ends that no path of active links joins
NoConnectivity ==
    LET r == route.result
    IN \/ r.source_id \notin DOMAIN nodes
       \/ r.destination_id \notin DOMAIN nodes
       \/ /\ r.source_id # r.destination_id
          /\ \A p \in SimplePaths(r.source_id, r.destination_id) : ~LinkedPath(p)

C16_EdgesSymmetric ==
    rebuild = Idle =>
        \A u, v \in DOMAIN nodes :
            /\ v \in adjacency[u] <=> u \in adjacency[v]
            /\ v \in adjacency[u] =>
                  /\ ActiveLinks(u, v) # {}
                  /\ ActiveLinks(v, u) # {}
                  /\ \A k \in ActiveLinks(u, v), l \in ActiveLinks(v, u) :
                        /\ links[k].distance_km = links[l].distance_km
                        /\ links[k].bandwidth_gbps = links[l].bandwidth_gbps
                        /\ links[k].latency_ms = links[l].latency_ms

\* C17: every find_route reads a complete topology, the one the last
\* finished call left or the one the update_topology under way is to leave,
\* never the cleared or half-filled one in between; and update_topology,
\* taken statement by statement, ends with the topology it is to leave.
C17_RouteSeesCompleteTopology ==
    /\ route.kind = "ok" => Topology \in ({built.before} \cup built.after)
    /\ (rebuild.pc = "building" /\ rebuild.i > Len(rebuild.node_ids)) =>
          Topology \in built.after

\* C17 witness: a route over links was returned after an update_topology
\* that passed through topologies that were neither the one it started from
\* nor the one it left.
C17_Witness ==
    /\ route.kind = "ok"
    /\ Len(route.result.path) >= 2
    /\ rebuild = Idle
    /\ built.halfway
    /\ Topology = built.before

\* C18: the mesh create_constellation(name, P, S, ...) returns has exactly
\* P * S nodes, registered under the pairwise distinct ids name_P<plane>_S<sat>,
\* and its links and adjacency are those a fresh update_topology over exactly
\* those nodes produces.
C18_ConstellationNodesAndLinks ==
    created.made =>
        LET ids == { ConstellationNodeId(created.name, plane, sat) :
                        plane \in 0..(created.num_planes - 1),
                        sat \in 0..(created.sats_per_plane - 1) }
        IN /\ Cardinality(DOMAIN nodes) = created.num_planes * created.sats_per_plane
           /\ DOMAIN nodes = ids
           /\ \A id \in DOMAIN nodes : nodes[id].node_id = id
           /\ Topology \in { [links |-> t.links, adjacency |-> t.adjacency] :
                                t \in { Rebuilt(nodes, [id \in DOMAIN nodes |-> {}], node_ids) :
                                           node_ids \in NodeIdOrders(DOMAIN nodes) } }

\* C18 witness: create_constellation("test", 2, 4, ...) returned a mesh of
\* 8 nodes with links between them.
C18_Witness ==
    /\ created.made
    /\ created.name = <<"test">>
    /\ created.num_planes = 2
    /\ created.sats_per_plane = 4
    /\ Cardinality(DOMAIN nodes) = 8
    /\ DOMAIN links # {}

\* C19: every PartitionPlan optimize returns holds one placement per layer,
\* in model order, each Ground or Orbital, the Ground ones a prefix and the
\* Orbital ones the remaining suffix.
C19_PlanIsPrefixAndSuffix ==
    partition.kind = "plan" =>
        LET layers == partition.model.layers
            placements == partition.plan.placements
        IN /\ Len(placements) = Len(layers)
           /\ \A i \in 1..Len(layers) :
                 /\ placements[i].layer_name = layers[i].name
                 /\ placements[i].location \in {"Ground", "Orbital"}
           /\ \E cut \in 0..Len(layers) :
                 \A i \in 1..Len(layers) :
                    placements[i].location = IF i <= cut THEN "Ground" ELSE "Orbital"

\* C19 witness: a plan other than a MinimizeLatency one, of three layers,
\* with a Ground layer followed by an Orbital one.
C19_Witness ==
    /\ partition.kind = "plan"
    /\ partition.objective # "MinimizeLatency"
    /\ Len(partition.plan.placements) = 3
    /\ partition.plan.placements[1].location = "Ground"
    /\ partition.plan.placements[3].location = "Orbital"

\* the compute time of layer i (1-based) at the given location
ComputeMs(opt, layer, location) ==
    FDiv(FromInt(layer.flops),
         IF location = "Ground" THEN opt.ground_compute_tflops
         ELSE opt.orbital_compute_tflops)

\* the transfer and propagation time of a cut before the given layer
CutMs(opt, layer) ==
    FAdd(FDiv(FromInt(8 * layer.input_size), opt.uplink_bandwidth_mbps),
         FDiv(opt.orbit_altitude_km, FromInt(SpeedOfLight)))

\* the sum of the latencies of the placements from i on
RECURSIVE SumLatency(_, _)
SumLatency(placements, i) ==
    IF i = 0 THEN Zero
    ELSE FAdd(SumLatency(placements, i - 1), placements[i].estimated_latency_ms)

\* the plan built for the cut has the layers before the cut on the ground,
\* and its latency is the compute time of each layer, with the transfer and
\* propagation time added at the layer after a cut strictly inside the model
PlanCostsOfCut(opt, model, cut) ==
    LET plan == CreatePlan(opt, model, cut, "MinimizeLatency")
        n == Len(model.layers)
        inside == cut > 0 /\ cut < n
    IN /\ Len(plan.placements) = n
       /\ \A i \in 1..n :
             LET c == ComputeMs(opt, model.layers[i], IF i <= cut THEN "Ground" ELSE "Orbital")
             IN plan.placements[i].estimated_latency_ms =
                   IF inside /\ i = cut + 1 THEN FAdd(c, CutMs(opt, model.layers[i])) ELSE c
       /\ plan.total_latency_ms = SumLatency(plan.placements, n)
       /\ plan.ground_orbital_transfers = IF inside THEN 1 ELSE 0
       /\ plan.total_transfer_bytes = IF inside THEN model.layers[cut + 1].input_size ELSE 0

\* C20: the plan optimize returns for MinimizeLatency has a total latency
\* no greater than that of the plan built for any cut in 0..layers.len(),
\* where a cut strictly inside the model adds the transfer and propagation
\* time at the cut layer and a cut at 0 or at layers.len() adds none.
C20_MinimizeLatencyIsMinimum ==
    (partition.kind = "plan" /\ partition.objective = "MinimizeLatency") =>
        \A cut \in 0..Len(partition.model.layers) :
           /\ PlanCostsOfCut(partition.optimizer, partition.model, cut)
           /\ ~FLt(CreatePlan(partition.optimizer, partition.model, cut,
                              "MinimizeLatency").total_latency_ms,
                   partition.plan.total_latency_ms)

\* C20 witness: a MinimizeLatency plan of three layers, all on the ground,
\* whose total latency is finite and strictly below that of the cuts at 0
\* and at 1.
C20_Witness ==
    /\ partition.kind = "plan"
    /\ partition.objective = "MinimizeLatency"
    /\ Len(partition.plan.placements) = 3
    /\ \A i \in 1..3 : partition.plan.placements[i].location = "Ground"
    /\ ~IsInf(partition.plan.total_latency_ms)
    /\ \A cut \in 0..1 :
          FLt(partition.plan.total_latency_ms,
              CreatePlan(partition.optimizer, partition.model, cut,
                         "MinimizeLatency").total_latency_ms)

\* the cumulative FLOPs of the first k layers
RECURSIVE PrefixFlops(_, _)
PrefixFlops(layers, k) ==
    IF k = 0 THEN 0 ELSE PrefixFlops(layers, k - 1) + layers[k].flops

\* total_flops * ground_tflops / (ground_tflops + orbital_tflops)
BalanceTarget(opt, model) ==
    FDiv(FMul(FromInt(PrefixFlops(model.layers, Len(model.layers))),
              opt.ground_compute_tflops),
         FAdd(opt.ground_compute_tflops, opt.orbital_compute_tflops))

\* the number of Ground placements of the plan
GroundCount(plan) ==
    Cardinality({ i \in 1..Len(plan.placements) : plan.placements[i].location = "Ground" })

\* the first k layers reach the target
ReachesTarget(opt, model, k) ==
    FGe(FromInt(PrefixFlops(model.layers, k)), BalanceTarget(opt, model))

\* C21: with objective Balance the Ground prefix is the smallest prefix, the
\* empty one included, whose cumulative FLOPs is at least
\* total_flops * ground_tflops / (ground_tflops + orbital_tflops).
C21_BalanceIsSmallestPrefix ==
    (partition.kind = "plan" /\ partition.objective = "Balance") =>
        \A k \in 0..Len(partition.model.layers) :
           (/\ ReachesTarget(partition.optimizer, partition.model, k)
            /\ \A j \in 0..(k - 1) : ~ReachesTarget(partition.optimizer, partition.model, j))
           => GroundCount(partition.plan) = k

\* with objective Balance the Ground prefix is the smallest prefix of at
\* least one layer that reaches the target, and the whole model when none does
C21_BalanceIsSmallestNonEmptyPrefix ==
    (partition.kind = "plan" /\ partition.objective = "Balance") =>
        LET n == Len(partition.model.layers)
            reach == { k \in 1..n : ReachesTarget(partition.optimizer, partition.model, k) }
        IN GroundCount(partition.plan) =
              IF reach = {} THEN n ELSE CHOOSE k \in reach : \A j \in reach : k <= j

\* a Balance plan of three layers whose Ground prefix is strictly inside
C21_NonEmptyWitness ==
    /\ partition.kind = "plan"
    /\ partition.objective = "Balance"
    /\ Len(partition.plan.placements) = 3
    /\ GroundCount(partition.plan) = 2

\* the documented quantization widths
SupportedBits == {2, 4, 8, 16, 32}

\* C22: a compressor whose quantization_bits is outside {2,4,8,16,32} does
\* not exist, or its TopKQuantized compress call ends in the typed failure
\* UnsupportedParameter: it neither crashes nor returns a CompressedGradient.
C22_UnsupportedWidthRejected ==
    (config.quantization_bits \notin SupportedBits /\ config.method = "TopKQuantized"
        /\ lastCall.kind # "none")
    => lastCall.kind = "UnsupportedParameter"

\* C23: every compress call of a RandomK compressor on an input of length
\* n >= 1 returns, and returns exactly k pairwise distinct indices below n.
C23_RandomKReturnsK ==
    (config.method = "RandomK" /\ lastCall.kind # "none" /\ Len(lastCall.input) >= 1) =>
        LET n == Len(lastCall.input)
            out == lastCall.out
        IN /\ lastCall.kind = "ok"
           /\ Len(out.indices) = ExpectedKeep(n, config.k_ratio)
           /\ \A i, j \in DOMAIN out.indices : i # j => out.indices[i] # out.indices[j]
           /\ \A i \in DOMAIN out.indices : out.indices[i] \in 0..(n - 1)

\* v lies on one of the 2^bits uniform levels spanning [lo, hi]
OnLevel(v, lo, hi, bits) ==
    \E level \in 0..(Pow2(bits) - 1) :
        RMul(RSub(v, lo), FromInt(Pow2(bits) - 1)) = RMul(FromInt(level), RSub(hi, lo))

\* C24: every returned compress call of a Quantization compressor keeps all
\* n positions, whatever k_ratio, and every returned value lies on one of
\* the 2^quantization_bits uniform levels spanning [min, max] of the values.
C24_QuantizationIsDense ==
    (config.method = "Quantization" /\ lastCall.kind = "ok" /\ Len(lastCall.input) >= 1) =>
        LET w == CorrectedInput
            out == lastCall.out
            lo == RMinOf(w, Len(w))
            hi == RMaxOf(w, Len(w))
        IN /\ Selected(out) = 0..(Len(w) - 1)
           /\ \A i \in DOMAIN out.values :
                 OnLevel(out.values[i], lo, hi, config.quantization_bits)

\* position a of w goes before position b: larger magnitude, or the same
\* magnitude and the smaller index (positions counted from 0)
GoesBefore(w, a, b) ==
    \/ RLt(RAbs(w[b + 1]), RAbs(w[a + 1]))
    \/ RAbs(w[a + 1]) = RAbs(w[b + 1]) /\ a < b

\* C25: for TopK and TopKQuantized the returned indices are listed by
\* descending magnitude of the residual-corrected input, equal magnitudes by
\* ascending index, and every selected position goes before every
\* unselected one in that order.
C25_TopKByMagnitudeThenIndex ==
    (config.method \in {"TopK", "TopKQuantized"} /\ lastCall.kind = "ok") =>
        LET w == CorrectedInput
            idx == lastCall.out.indices
        IN /\ \A i, j \in DOMAIN idx : i < j => GoesBefore(w, idx[i], idx[j])
           /\ \A i \in DOMAIN idx : \A p \in 0..(Len(w) - 1) :
                 p \notin Selected(lastCall.out) => GoesBefore(w, idx[i], p)

\* C25 witness: a second Top-K call with a stored residual returned 2 of 3
\* positions, and an unselected position has the magnitude of a selected one.
C25_Witness ==
    /\ config.method \in {"TopK", "TopKQuantized"}
    /\ lastCall.kind = "ok"
    /\ calls = 2
    /\ lastCall.before # <<>>
    /\ Len(lastCall.input) = 3
    /\ Len(lastCall.out.indices) = 2
    /\ \E p \in 0..2 :
          /\ p \notin Selected(lastCall.out)
          /\ RAbs(CorrectedInput[p + 1]) = RAbs(CorrectedInput[lastCall.out.indices[2] + 1])
          /\ RAbs(CorrectedInput[p + 1]) # Zero

\* C26: on a compressor with error feedback and a method other than None,
\* after every call of a sequence of returned calls on inputs of one length
\* the stored residual is, position by position, the sum of the inputs so
\* far minus the sum of the transmitted values so far; and the residual a
\* call stores is (input + previous residual) - its reconstruction.
C26_FeedbackConservesMass ==
    (config.error_feedback /\ config.method # "None" /\ lastCall.kind = "ok") =>
        /\ error_accumulator =
              <<[i \in DOMAIN lastCall.input |->
                   RSub(CorrectedInput[i], Decompress(lastCall.out)[i])]>>
        /\ owed # <<>> => error_accumulator = owed

\* C26 witness: the second call of a TopKQuantized compressor with error
\* feedback returned on an input of the length of the first; the residual
\* carried in was transmitted at a selected position, and another residual
\* is carried out.
C26_Witness ==
    /\ config.error_feedback
    /\ config.method = "TopKQuantized"
    /\ lastCall.kind = "ok"
    /\ calls = 2
    /\ owed # <<>>
    /\ Len(lastCall.input) = 3
    /\ \E i \in 1..3 :
          /\ lastCall.before[1][i] # Zero
          /\ (i - 1) \in Selected(lastCall.out)
    /\ \E i \in 1..3 : owed[1][i] # Zero
    /\ error_accumulator = owed

\* C28: the route find_route returned has num_hops = path.len() - 1 when
\* its path is not empty and num_hops = 0 when it is.
C28_HopsCountLinks ==
    route.kind = "ok" =>
        route.result.num_hops =
           IF route.result.path = <<>> THEN 0 ELSE Len(route.result.path) - 1

\* the two nodes are no further apart than the smaller of their ISL ranges
\* and have line-of-sight
WithinReach(node1, node2) ==
    /\ CalculateDistance(node1, node2) <= IMin(node1.isl_range_km, node2.isl_range_km)
    /\ HasLineOfSight(node1, node2)

\* between every two distinct registered nodes there is an active link,
\* from the one to the other, exactly if they are within reach
LinksMatchGeometry ==
    \A u, v \in DOMAIN nodes :
        u # v => (ActiveLinks(u, v) # {} <=> WithinReach(nodes[u], nodes[v]))

\* C27: immediately after update_topology, for every two distinct
\* registered nodes u and v, an active link from u to v is stored iff their
\* separation is at most the smaller of their ISL ranges and they have
\* line-of-sight, whatever links there were before the call.
C27_LinksIffWithinReach ==
    [][UpdateTopology => LinksMatchGeometry']_vars

\* C27 on meshes in which no two pairs of node ids format to one link key
C27_HoldsWithoutSharedKey ==
    [][(UpdateTopology /\ ~SharedLinkKey(DOMAIN nodes)) => LinksMatchGeometry']_vars

\* for every u and every v in the adjacency of u, the link stored under the
\* key built from u and v is the link from u to v, with the distance,
\* bandwidth and latency of that pair
EdgeLookupUnambiguous ==
    \A u \in DOMAIN nodes : \A v \in adjacency[u] :
        /\ LinkKey(u, v) \in DOMAIN links
        /\ links[LinkKey(u, v)] =
              NewLink(u, v, CalculateDistance(nodes[u], nodes[v]),
                      IMin(nodes[u].isl_bandwidth_gbps, nodes[v].isl_bandwidth_gbps))

\* C29: immediately after update_topology the link fetched under the key of
\* an adjacent ordered pair (u, v) has source u, target v and the distance,
\* bandwidth and latency computed for that pair, also for node ids that
\* contain '-'.
C29_EdgeLookupUnambiguous ==
    [][UpdateTopology => EdgeLookupUnambiguous']_vars

-----------------------------------------------------------------------------
(* Claims about the topology (SpecTopology).                               *)

\* both ends of every stored connection are registered nodes
EndpointsRegistered ==
    \A i \in DOMAIN connections :
        /\ connections[i][1] \in DOMAIN topology_nodes
        /\ connections[i][2] \in DOMAIN topology_nodes

\* C30: after any sequence of add_node, remove_node and add_connection both
\* ends of every stored connection are registered; add_connection with an
\* id that is not registered returns Err and leaves nodes and connections as
\* they were; remove_node leaves the node unregistered and no connection
\* that names it at either end.
C30_ConnectionsJoinRegisteredNodes ==
    /\ []EndpointsRegistered
    /\ [][(/\ topologyCall'.op = "add_connection"
           /\ \/ topologyCall'.node1_id \notin DOMAIN topology_nodes
              \/ topologyCall'.node2_id \notin DOMAIN topology_nodes)
          => (topologyCall'.result = "Err" /\ UNCHANGED <<topology_nodes, connections>>)]_vars
    /\ [][topologyCall'.op = "remove_node"
          => /\ topologyCall'.node1_id \notin DOMAIN topology_nodes'
             /\ \A i \in DOMAIN connections' :
                   /\ connections'[i][1] # topologyCall'.node1_id
                   /\ connections'[i][2] # topologyCall'.node1_id]_vars

\* C30 witness: remove_node found three connections, two of them at the
\* removed node, and left the third between nodes that are still registered.
C30_Witness ==
    /\ topologyCall.op = "remove_node"
    /\ topologyCall.had = 3
    /\ Len(connections) = 1
    /\ connections[1][1] # connections[1][2]
    /\ EndpointsRegistered

=============================================================================
